---- MODULE Spec2Model ----
\* Stock alert engine of RelStocks: per-subscriber evaluation of a stock
\* snapshot against a watch list (checkStockForUser), the process-wide memory
\* of the 30-minute restock categories, and the two-wave fan-out of a snapshot
\* to the subscribers (websocketManager.onStockUpdate).
EXTENDS Integers, Sequences, FiniteSets, TLC

\* ------------------------------------------------------------------ bounds

\* Number of times the wall clock is advanced between two snapshots.
MaxTicks == 1

\* ------------------------------------------------------------- categories

ImmediateCategories == <<"seed_stock", "gear_stock">>

SlowCategories == <<"egg_stock", "eventshop_stock">>

Range(s) == {s[i] : i \in DOMAIN s}

ImmCats == Range(ImmediateCategories)

SlowCats == Range(SlowCategories)

Cats == ImmCats \cup SlowCats

\* Labels without their emoji prefix.
categoryNames ==
    [seed_stock |-> "Seeds", gear_stock |-> "Gear", egg_stock |-> "Eggs",
     cosmetic_stock |-> "Cosmetics", eventshop_stock |-> "Event Shop"]

\* A watch list maps every category to a list of item ids; a category that
\* is no key of the JavaScript object has the empty list.
defaultAlerts ==
    [seed_stock |-> <<"banana", "pineapple", "avocado", "kiwi", "bell_pepper",
                      "prickly_pear", "loquat", "feijoa", "sugar_apple">>,
     gear_stock |-> <<"advanced_sprinkler", "master_sprinkler", "godly_sprinkler",
                      "tanning_mirror", "lightning_rod", "friendship_pot">>,
     egg_stock |-> <<"bug_egg", "mythical_egg", "paradise_egg">>,
     eventshop_stock |-> <<>>]

\* 30 * 60 * 1000 ms, the restock interval of the slow categories.
ThirtyMin == 30 * 60 * 1000

OneMinute == 60 * 1000

\* ----------------------------------------------------------- item names

\* The characters of the item ids that occur in snapshots.
Spelling(itemId) ==
    CASE itemId = "kiwi" -> <<"k", "i", "w", "i">>
      [] itemId = "apple" -> <<"a", "p", "p", "l", "e">>
      [] itemId = "lightning_rod" ->
            <<"l", "i", "g", "h", "t", "n", "i", "n", "g", "_", "r", "o", "d">>
      [] itemId = "bug_egg" -> <<"b", "u", "g", "_", "e", "g", "g">>
      [] itemId = "paradise_egg" ->
            <<"p", "a", "r", "a", "d", "i", "s", "e", "_", "e", "g", "g">>
      [] itemId = "bee_egg" -> <<"b", "e", "e", "_", "e", "g", "g">>
      [] OTHER -> <<>>

LowerCase ==
    <<"a", "b", "c", "d", "e", "f", "g", "h", "i", "j", "k", "l", "m",
      "n", "o", "p", "q", "r", "s", "t", "u", "v", "w", "x", "y", "z">>

UpperCase ==
    <<"A", "B", "C", "D", "E", "F", "G", "H", "I", "J", "K", "L", "M",
      "N", "O", "P", "Q", "R", "S", "T", "U", "V", "W", "X", "Y", "Z">>

toUpperCase(ch) ==
    IF \E i \in DOMAIN LowerCase : LowerCase[i] = ch
    THEN UpperCase[CHOOSE i \in DOMAIN LowerCase : LowerCase[i] = ch]
    ELSE ch

\* String.prototype.split: the pieces of chars between occurrences of sep.
RECURSIVE split(_, _, _)
split(chars, sep, word) ==
    IF chars = <<>> THEN <<word>>
    ELSE IF Head(chars) = sep THEN <<word>> \o split(Tail(chars), sep, <<>>)
    ELSE split(Tail(chars), sep, Append(word, Head(chars)))

\* A map that leaves the words as they are.
AsWritten(word) == word

\* word.charAt(0).toUpperCase() + word.slice(1)
Capitalise(word) ==
    IF word = <<>> THEN <<>> ELSE <<toUpperCase(Head(word))>> \o Tail(word)

RECURSIVE join(_, _)
join(words, sep) ==
    IF words = <<>> THEN <<>>
    ELSE IF Len(words) = 1 THEN Head(words)
    ELSE Head(words) \o <<sep>> \o join(Tail(words), sep)

UnknownItem == <<"U", "n", "k", "n", "o", "w", "n", " ", "I", "t", "e", "m">>

\* itemId.split('_').map(word => ...).join(' ') on the characters of itemId
TitleCase(chars) ==
    LET words == split(chars, "_", <<>>)
    IN join([i \in DOMAIN words |-> Capitalise(words[i])], " ")

formatItemName(itemId) ==
    IF itemId = "" THEN UnknownItem ELSE TitleCase(Spelling(itemId))

\* ------------------------------------------------------------- snapshots

\* One entry of a category list; an entry that is null or has no item_id is
\* the entry with the empty id.
Entry(id) == [item_id |-> id]

\* A category of a snapshot: absent (data[category] is undefined) or a list.
AbsentCategory == [present |-> FALSE, items |-> <<>>]

List(ids) == [present |-> TRUE, items |-> [i \in DOMAIN ids |-> Entry(ids[i])]]

SeedLists == {AbsentCategory, List(<<"kiwi">>), List(<<"apple">>)}

GearLists == {AbsentCategory, List(<<"lightning_rod">>)}

EggLists ==
    {AbsentCategory, List(<<>>), List(<<"bug_egg">>),
     List(<<"bug_egg", "paradise_egg">>)}

EventLists == {AbsentCategory, List(<<"bee_egg">>)}

Snapshots ==
    [seed_stock : SeedLists, gear_stock : GearLists,
     egg_stock : EggLists, eventshop_stock : EventLists]

NoSnapshot == [c \in Cats |-> AbsentCategory]

ItemIds(entries) == {entries[i].item_id : i \in DOMAIN entries}

\* The item ids a snapshot holds under a category.
ItemSet(snapshot, category) == ItemIds(snapshot[category].items) \ {""}

\* ------------------------------------------------------------ watch lists

Subscribers == {"u1", "u2"}

NoAlerts == [c \in Cats |-> <<>>]

\* The rows of subscriber_alerts of one user, grouped by category.
WatchLists ==
    {NoAlerts,
     [NoAlerts EXCEPT !["seed_stock"] = <<"kiwi">>],
     [NoAlerts EXCEPT !["egg_stock"] = <<"paradise_egg">>],
     [NoAlerts EXCEPT !["eventshop_stock"] = <<"bee_egg">>]}

\* Object.keys(userAlerts)
Keys(userAlerts) == {c \in Cats : userAlerts[c] # <<>>}

\* Array.prototype.includes
includes(list, id) == \E i \in DOMAIN list : list[i] = id

\* ------------------------------------------------------ checkStockForUser

\* SelectAlerts with the default items added to a stored watch list.
SelectAlertsMerged(userAlerts) ==
    [c \in Cats |-> userAlerts[c] \o defaultAlerts[c]]

\* let alertsToCheck = defaultAlerts;
\* if (userAlerts && Object.keys(userAlerts).length > 0) alertsToCheck = userAlerts
SelectAlerts(userAlerts) ==
    IF Keys(userAlerts) # {} THEN userAlerts ELSE defaultAlerts

\* Matches without the test against the watch list.
MatchesAnyItem(data, alertsToCheck, category) ==
    IF ~data[category].present THEN <<>>
    ELSE SelectSeq(data[category].items, LAMBDA item : item.item_id # "")

\* data[category]?.filter(item => item && item.item_id &&
\*                        alertsToCheck[category]?.includes(item.item_id))
Matches(data, alertsToCheck, category) ==
    IF ~data[category].present THEN <<>>
    ELSE SelectSeq(data[category].items,
                   LAMBDA item : /\ item.item_id # ""
                                 /\ includes(alertsToCheck[category], item.item_id))

\* IncludeImmediate with the length test off by one.
IncludeImmediateOffByOne(matches) == Len(matches) > 1

\* if (matches?.length) of the seed and gear loop
IncludeImmediate(matches) == Len(matches) > 0

\* One block of foundItems: the category and the ids of its bulleted items.
Block(category, matches) ==
    [category |-> category,
     items |-> [i \in DOMAIN matches |-> matches[i].item_id]]

\* The loop over seed_stock and gear_stock, from its k-th category on.
RECURSIVE ImmediateLoop(_, _, _)
ImmediateLoop(data, alertsToCheck, k) ==
    IF k > Len(ImmediateCategories) THEN <<>>
    ELSE LET category == ImmediateCategories[k]
             matches == Matches(data, alertsToCheck, category)
         IN (IF IncludeImmediate(matches) THEN <<Block(category, matches)>> ELSE <<>>)
            \o ImmediateLoop(data, alertsToCheck, k + 1)

\* IncludeSlow as the comment above the test words it: new items count
\* only once 30 minutes have passed.
IncludeSlowAfterInterval(hasNewItems, hasNewSeedOrGear, is30MinInterval) ==
    (hasNewItems /\ is30MinInterval) \/ hasNewSeedOrGear

\* if (hasNewItems || hasNewSeedOrGear)
IncludeSlow(hasNewItems, hasNewSeedOrGear, is30MinInterval) ==
    hasNewItems \/ hasNewSeedOrGear

\* [...currentItems].some(item => !lastSeen.has(item))
HasNewItems(currentItems, lastSeen) == \E item \in currentItems : item \notin lastSeen

\* The loop over egg_stock and eventshop_stock, from its k-th category on;
\* acc holds foundItems, the two memory maps and the hasNewItems results.
RECURSIVE SlowLoop(_, _, _, _, _, _)
SlowLoop(data, alertsToCheck, hasNewSeedOrGear, t, acc, k) ==
    IF k > Len(SlowCategories) THEN acc
    ELSE LET category == SlowCategories[k]
             matches == Matches(data, alertsToCheck, category)
             currentItems == ItemIds(matches)
             lastSeen == acc.lastSeenStock[category]
             lastCheck == acc.lastCheckTime30Min[category]
             is30MinInterval == (t - lastCheck) >= ThirtyMin
             hasNewItems == HasNewItems(currentItems, lastSeen)
             include == IncludeSlow(hasNewItems, hasNewSeedOrGear, is30MinInterval)
             next ==
                 IF Len(matches) > 0
                 THEN [foundItems |->
                          IF include
                          THEN Append(acc.foundItems, Block(category, matches))
                          ELSE acc.foundItems,
                       lastCheckTime30Min |->
                          IF include /\ is30MinInterval
                          THEN [acc.lastCheckTime30Min EXCEPT ![category] = t]
                          ELSE acc.lastCheckTime30Min,
                       lastSeenStock |->
                          [acc.lastSeenStock EXCEPT ![category] = currentItems],
                       hasNewItems |-> [acc.hasNewItems EXCEPT ![category] = hasNewItems],
                       wrote |-> TRUE]
                 ELSE acc
         IN SlowLoop(data, alertsToCheck, hasNewSeedOrGear, t, next, k + 1)

\* The synchronous part of checkStockForUser that follows getUserAlerts.
Evaluation(data, alertsToCheck, seen, checked, t) ==
    LET immediate == ImmediateLoop(data, alertsToCheck, 1)
        hasNewSeedOrGear == immediate # <<>>
    IN SlowLoop(data, alertsToCheck, hasNewSeedOrGear, t,
                [foundItems |-> immediate, lastSeenStock |-> seen,
                 lastCheckTime30Min |-> checked,
                 hasNewItems |-> [c \in SlowCats |-> FALSE], wrote |-> FALSE], 1)

\* ShouldSend without the test: a message is sent whatever was found.
ShouldSendAlways(foundItems) == TRUE

\* if (foundItems.length)
ShouldSend(foundItems) == Len(foundItems) > 0

\* The text handed to sendMessage: the header and, per block, the category
\* label and the bulleted display names.
AlertText(foundItems, isScheduled) ==
    [header |-> IF isScheduled THEN "Stock Alert!" ELSE "",
     intro |-> "Here's what's currently in stock:",
     blocks |-> [i \in DOMAIN foundItems |->
                    [label |-> categoryNames[foundItems[i].category],
                     bullets |-> [j \in DOMAIN foundItems[i].items |->
                                     formatItemName(foundItems[i].items[j])]]]]

\* ------------------------------------------------------------------ state

VARIABLES
    alertsDb,             \* subscriber_alerts: the stored watch list of each user
    now,                  \* Date.now()
    ticks,                \* how often the clock was advanced
    lastSeenStock,        \* Map category -> Set of item ids (no key: empty set)
    lastCheckTime30Min,   \* Map category -> time (no key: 0)
    data,                 \* the snapshot of the fan-out in progress, or the last one
    received,             \* whether a snapshot was received yet
    first,                \* whether data is the first snapshot received
    repeats,              \* successive snapshots equal to data, data included
    wave,                 \* 0: no fan-out in progress, 1: first wave, 2: retry wave
    pc,                   \* where checkStockForUser of each subscriber stands
    failedSubscribers,    \* the Set of the handler
    evals,                \* what the latest evaluation of each subscriber did
    memWrites,            \* evaluations of this snapshot that wrote category memory
    attempts,             \* calls of checkStockForUser per subscriber in this fan-out
    handler,              \* how the promise of the stock-update handler stands
    ws,                   \* readyState of the link this.ws refers to
    isConnected,          \* WebSocketManager.isConnected
    reconnectAttempts,    \* WebSocketManager.reconnectAttempts
    timers,               \* delays of the pending reconnect timers
    lastStockData,        \* WebSocketManager.lastStockData
    last,                 \* what the latest handler of the manager did
    stopped,              \* disconnect() was called on an open link, connect() not since
    links,                \* the links made by connect() that are connecting or open
    broadcastWave,        \* 0: no broadcast, 1: first wave, 2: retry wave, 3: reported
    broadcastPc,          \* where sendMessage of each broadcast recipient stands
    successCount,         \* handleBroadcastCommand: successCount
    failCount,            \* handleBroadcastCommand: failCount
    failedBroadcasts,     \* handleBroadcastCommand: failedSubscribers
    sends,                \* sendMessage calls and deliveries per broadcast recipient
    clock,                \* Date.now() as the scheduler reads it
    processStart,         \* the time the process started
    checkTimers,          \* deadlines of the pending timers of scheduleNextCheck
    lastScheduledCheck,   \* let lastScheduledCheck
    subscribed,           \* stockManager.subscribers as the scheduler finds it
    firings,              \* how often the timer of scheduleNextCheck has fired
    firing,               \* what the latest firing did
    schedPc,              \* where the scheduler stands
    retries,              \* getStock: the parameter retries
    attempt,              \* getStock: let attempt
    getStockPc,           \* where getStock stands
    requests,             \* getStock: how each request made was answered
    waits,                \* getStock: the delays waited, in ms
    result,               \* getStock: what it returned or threw
    itemChars,            \* formatItemName: the characters of itemId
    displayName,          \* formatItemName: the characters it returned
    commandNow,           \* Date.now() as the command handlers read it
    lastCheckTime,        \* lastCheckTime.get(senderId) || 0
    dailyCommandCount,    \* rateLimitConfig.dailyCommandCount.get(senderId) || 0
    lastCommandReset,     \* rateLimitConfig.lastCommandReset.get(senderId) || 0
    messageTimestamps,    \* rateLimitConfig.messageTimestamps.get(senderId) || []
    lastAccepted,         \* when updateRateLimits last ran for the user, 0: never
    commands,             \* how many commands the user has sent
    command,              \* what the handler of the latest command did
    fanData,              \* onStockUpdate: data, per call of the handler
    fanWave,              \* 0: not called, 1: first wave, 2: retry wave, 3: returned
    fanPc,                \* where checkStockForUser of each subscriber stands
    fanFailed,            \* onStockUpdate: failedSubscribers, per call
    memAccess,            \* the evaluations that read and wrote category memory
    sendPc,               \* where sendMessage stands
    sendRequests,         \* sendMessage: how each request for one message was answered
    sendWaits,            \* sendMessage: waits of 5 seconds made
    sendResult,           \* sendMessage: the value returned
    checkNow,             \* Date.now() as checkStock of index.js reads it
    manualCheckTime,      \* index.js: lastCheckTime.get(senderId) || 0
    checks,               \* how many calls of checkStock of index.js were made
    check                 \* what the latest of them did

\* The state of the WebSocketManager.
linkVars ==
    <<ws, isConnected, reconnectAttempts, timers, lastStockData, last, stopped, links>>

\* The locals of handleBroadcastCommand.
broadcastVars ==
    <<broadcastWave, broadcastPc, successCount, failCount, failedBroadcasts, sends>>

\* The stock fan-out without the category memory.
fanOutVars ==
    <<alertsDb, now, ticks, data, received, first, repeats, wave, pc,
      failedSubscribers, evals, memWrites, attempts, handler>>

\* The alert engine: category memory and the locals of the stock fan-out.
stockVars ==
    <<alertsDb, now, ticks, lastSeenStock, lastCheckTime30Min, data, received,
      first, repeats, wave, pc, failedSubscribers, evals, memWrites, attempts,
      handler>>

\* The scheduler of the fallback poll.
schedulerVars ==
    <<clock, processStart, checkTimers, lastScheduledCheck, subscribed, firings,
      firing, schedPc>>

\* The locals of APIClient.getStock.
getStockVars == <<retries, attempt, getStockPc, requests, waits, result>>

\* The API client, the commands and the sender of messages.
\* The argument and the value of formatItemName.
formatVars == <<itemChars, displayName>>

\* The cooldown and the rate limits of one user, and the user's commands.
commandVars ==
    <<commandNow, lastCheckTime, dailyCommandCount, lastCommandReset,
      messageTimestamps, lastAccepted, commands, command>>

\* Two calls of the handler of stock updates.
overlapVars == <<fanData, fanWave, fanPc, fanFailed, memAccess>>

\* The locals of sendMessage and of its calls of itself.
sendVars == <<sendPc, sendRequests, sendWaits, sendResult>>

\* checkStock of index.js, which evaluates the default list itself.
checkVars == <<checkNow, manualCheckTime, checks, check>>

serviceVars ==
    <<getStockVars, formatVars, commandVars, overlapVars, sendVars, checkVars>>

vars == <<stockVars, linkVars, broadcastVars, schedulerVars, serviceVars>>

\* Cap of the repeats counter.
MaxRepeats == 3

NoEval ==
    [evaluated |-> FALSE, alertsToCheck |-> NoAlerts, foundItems |-> <<>>,
     hasNewItems |-> [c \in SlowCats |-> FALSE], writesSeen |-> 0, sent |-> FALSE]

NoAttempt == [calls |-> 0, delivered |-> 0]

\* Date.now() is far more than 30 minutes after the epoch.
StartTime == ThirtyMin

\* The manager as its constructor leaves it; no handler has run.
\* this.lastStockData = null
null == [parsed |-> FALSE, stock |-> <<>>]

NoEvent ==
    [event |-> "none", wsBefore |-> "null", attemptsBefore |-> 0,
     payload |-> null, onConnect |-> 0, onDisconnect |-> 0, onError |-> 0,
     onStockUpdate |-> 0, scheduled |-> <<>>, threw |-> FALSE]

LinkInit ==
    /\ ws = "null"
    /\ isConnected = FALSE
    /\ reconnectAttempts = 0
    /\ timers = <<>>
    /\ lastStockData = null
    /\ last = NoEvent
    /\ stopped = FALSE
    /\ links = 0

\* The subscribers a broadcast goes to.
BroadcastRecipients == {"u1", "u2", "u3", "u4"}

NoSend == [calls |-> 0, delivered |-> 0]

\* No broadcast command is being handled.
BroadcastInit ==
    /\ broadcastWave = 0
    /\ broadcastPc = [u \in BroadcastRecipients |-> "idle"]
    /\ successCount = 0
    /\ failCount = 0
    /\ failedBroadcasts = {}
    /\ sends = [u \in BroadcastRecipients |-> NoSend]

\* ---- the clock of the scheduler

\* Math.ceil(minutes / 5) * 5: the interval of the checks, in minutes
CheckIntervalMinutes == 5

Second == 1000

Minute == 60 * Second

Hour == 60 * Minute

\* 8 * 60 * 60 * 1000: the offset of the UTC+8 clock
Offset == 8 * Hour

\* 4 * 60 * 1000: the threshold of the duplicate guard
FourMinutes == 4 * 60 * 1000

\* Date.now() at 00:00 of 2 January 1970 on the UTC+8 clock.
Midnight == 24 * Hour - Offset

\* Date.now() at h:m:s.ms of that day on the UTC+8 clock.
At(h, m, s, ms) == Midnight + h * Hour + m * Minute + s * Second + ms

\* No timer of scheduleNextCheck has fired yet.
NoFiring ==
    [kind |-> "none", at |-> 0, sinceLast |-> 0, subscribers |-> {},
     active |-> FALSE, calledCheckStock |-> FALSE, fetched |-> FALSE,
     evaluated |-> {}, armed |-> 0, threw |-> FALSE]

\* The scheduler before initializeApp has called scheduleNextCheck.
SchedulerInit ==
    /\ checkTimers = <<>>
    /\ lastScheduledCheck = 0
    /\ firings = 0
    /\ firing = NoFiring
    /\ schedPc = "init"

\* The scheduler takes no step: 14:27:43, a process just started.
SchedulerIdle ==
    /\ SchedulerInit
    /\ clock = At(14, 27, 43, 0)
    /\ processStart = At(14, 27, 43, 0)
    /\ subscribed = Subscribers

\* getStock(retries = 3)
DefaultRetries == 3

\* getStock has returned nothing yet.
NoResult == [kind |-> "none", of |-> 0]

\* getStock was not called.
GetStockInit ==
    /\ retries = DefaultRetries
    /\ attempt = 0
    /\ getStockPc = "idle"
    /\ requests = <<>>
    /\ waits = <<>>
    /\ result = NoResult

\* Neither the API client nor a command nor the sender takes a step.
\* formatItemName was not called.
FormatInit == itemChars = <<>> /\ displayName = <<>>

\* No command was handled yet. sinceAccepted and sinceCheck are 0 when no
\* command was accepted, no check made, before.
NoCommand ==
    [kind |-> "none", at |-> 0, sinceAccepted |-> 0, sinceCheck |-> 0,
     limited |-> "no", cooldownMessage |-> FALSE, fetched |-> FALSE,
     evaluated |-> FALSE, errorMessage |-> FALSE]

\* The user has sent no command; it is 10:00.
CommandInit ==
    /\ commandNow = At(10, 0, 0, 0)
    /\ lastCheckTime = 0
    /\ dailyCommandCount = 0
    /\ lastCommandReset = 0
    /\ messageTimestamps = <<>>
    /\ lastAccepted = 0
    /\ commands = 0
    /\ command = NoCommand

\* The calls of the handler of stock updates.
Calls == {1, 2}

\* The handler of stock updates was not called.
OverlapInit ==
    /\ fanData = [s \in Calls |-> NoSnapshot]
    /\ fanWave = [s \in Calls |-> 0]
    /\ fanPc = [s \in Calls |-> [u \in Subscribers |-> "idle"]]
    /\ fanFailed = [s \in Calls |-> {}]
    /\ memAccess = <<>>

\* sendMessage was not called.
SendInit ==
    /\ sendPc = "idle"
    /\ sendRequests = <<>>
    /\ sendWaits = 0
    /\ sendResult = "none"

\* checkStock of index.js was not called.
NoCheck == [kind |-> "none", evaluated |-> FALSE, foundItems |-> <<>>, sentTo |-> {}]

CheckInit ==
    /\ checkNow = StartTime
    /\ manualCheckTime = 0
    /\ checks = 0
    /\ check = NoCheck

ServiceIdle ==
    /\ GetStockInit /\ FormatInit /\ CommandInit /\ OverlapInit /\ SendInit
    /\ CheckInit

\* Subscriber u1 has no stored alerts; u2 has any of the watch lists.
StockInit ==
    /\ alertsDb \in [Subscribers -> WatchLists]
    /\ alertsDb["u1"] = NoAlerts
    /\ now = StartTime
    /\ ticks = 0
    /\ lastSeenStock = [c \in SlowCats |-> {}]
    /\ lastCheckTime30Min = [c \in SlowCats |-> 0]
    /\ data = NoSnapshot
    /\ received = FALSE
    /\ first = FALSE
    /\ repeats = 0
    /\ wave = 0
    /\ pc = [u \in Subscribers |-> "idle"]
    /\ failedSubscribers = {}
    /\ evals = [u \in Subscribers |-> NoEval]
    /\ memWrites = 0
    /\ attempts = [u \in Subscribers |-> NoAttempt]
    /\ handler = "idle"

Init == StockInit /\ LinkInit /\ BroadcastInit /\ SchedulerIdle /\ ServiceIdle

\* ---------------------------------------------------------------- actions

\* Time passes between two snapshots.
Tick(dt) ==
    /\ wave = 0
    /\ ticks < MaxTicks
    /\ now' = now + dt
    /\ ticks' = ticks + 1
    /\ UNCHANGED <<alertsDb, lastSeenStock, lastCheckTime30Min, data, received,
                   first, repeats, wave, pc, failedSubscribers, evals, memWrites,
                   attempts, handler>>
    /\ UNCHANGED <<linkVars, broadcastVars, schedulerVars, serviceVars>>

\* A first wave that leaves out the second subscriber.
FirstWaveFirstOnly == {"u1"}

\* Array.from(stockManager.subscribers).map(async (userId) => ...)
FirstWave == Subscribers

\* A retry wave over every subscriber.
RetryEveryone(failed) == Subscribers

\* Array.from(failedSubscribers).map(async (userId) => ...)
RetryWave(failed) == failed

\* Catches with the try/catch of the retry wave taken away.
CatchesFirstWaveOnly(w) == w = 1

\* try { await checkStockForUser(userId, data, true) } catch (err) { ... }
\* in the arrow function of wave w
Catches(w) == w \in {1, 2}

\* websocketManager.onStockUpdate(d): checkStockForUser of every subscriber
\* is started and runs up to its await of getUserAlerts.
OnStockUpdate(d) ==
    /\ wave = 0
    /\ data' = d
    /\ received' = TRUE
    /\ first' = ~received
    /\ repeats' = IF received /\ d = data
                  THEN (IF repeats < MaxRepeats THEN repeats + 1 ELSE repeats)
                  ELSE 1
    /\ wave' = 1
    /\ failedSubscribers' = {}
    /\ pc' = [u \in Subscribers |->
                 IF u \in FirstWave THEN "getUserAlerts" ELSE "idle"]
    /\ attempts' = [u \in Subscribers |->
                       [calls |-> IF u \in FirstWave THEN 1 ELSE 0, delivered |-> 0]]
    /\ evals' = [u \in Subscribers |-> NoEval]
    /\ memWrites' = 0
    /\ handler' = "running"
    /\ UNCHANGED <<alertsDb, now, ticks, lastSeenStock, lastCheckTime30Min>>
    /\ UNCHANGED <<linkVars, broadcastVars, schedulerVars, serviceVars>>

\* getUserAlerts of subscriber u returns (the stored rows, or {} after a
\* database error) and checkStockForUser runs on, without yielding, to the
\* fetch of sendMessage or to its end.
GetUserAlertsReturns(u, dbOk) ==
    /\ wave \in {1, 2}
    /\ pc[u] = "getUserAlerts"
    /\ LET userAlerts == IF dbOk THEN alertsDb[u] ELSE NoAlerts
           alertsToCheck == SelectAlerts(userAlerts)
           r == Evaluation(data, alertsToCheck, lastSeenStock, lastCheckTime30Min, now)
       IN /\ lastSeenStock' = r.lastSeenStock
          /\ lastCheckTime30Min' = r.lastCheckTime30Min
          /\ memWrites' = IF r.wrote THEN memWrites + 1 ELSE memWrites
          /\ evals' = [evals EXCEPT ![u] =
                          [evaluated |-> TRUE, alertsToCheck |-> alertsToCheck,
                           foundItems |-> r.foundItems, hasNewItems |-> r.hasNewItems,
                           writesSeen |-> memWrites,
                           sent |-> ShouldSend(r.foundItems)]]
          /\ pc' = [pc EXCEPT ![u] =
                       IF ShouldSend(r.foundItems) THEN "sendMessage" ELSE "done"]
    /\ UNCHANGED <<alertsDb, now, ticks, data, received, first, repeats, wave,
                   failedSubscribers, attempts, handler>>
    /\ UNCHANGED <<linkVars, broadcastVars, schedulerVars, serviceVars>>

\* The Messenger API answers 200: sendMessage returns true.
SendMessageOk(u) ==
    /\ pc[u] = "sendMessage"
    /\ pc' = [pc EXCEPT ![u] = "done"]
    /\ attempts' = [attempts EXCEPT ![u].delivered = @ + 1]
    /\ UNCHANGED <<alertsDb, now, ticks, lastSeenStock, lastCheckTime30Min, data,
                   received, first, repeats, wave, failedSubscribers, evals,
                   memWrites, handler>>
    /\ UNCHANGED <<linkVars, broadcastVars, schedulerVars, serviceVars>>

\* The request fails: sendMessage throws and so does checkStockForUser; the
\* catch of the wave records the subscriber (first wave) or logs the failure
\* (retry wave). Uncaught, the promise of the arrow function is rejected.
SendMessageFails(u) ==
    /\ pc[u] = "sendMessage"
    /\ pc' = [pc EXCEPT ![u] = IF Catches(wave) THEN "failed" ELSE "rejected"]
    /\ failedSubscribers' =
           IF wave = 1 /\ Catches(wave)
           THEN failedSubscribers \cup {u} ELSE failedSubscribers
    /\ UNCHANGED <<alertsDb, now, ticks, lastSeenStock, lastCheckTime30Min, data,
                   received, first, repeats, wave, evals, memWrites, attempts,
                   handler>>
    /\ UNCHANGED <<linkVars, broadcastVars, schedulerVars, serviceVars>>

\* Settled as soon as one call of the wave has ended.
SettledAny == \E u \in Subscribers : pc[u] \in {"done", "failed", "rejected"}

\* await Promise.allSettled(...): every promise of the wave has settled.
Settled == \A u \in Subscribers : pc[u] \in {"idle", "done", "failed", "rejected"}

\* The handler returns: its locals are gone. Promise.allSettled is fulfilled
\* whatever the promises of the wave did, so the handler's promise is too.
HandlerReturns ==
    /\ wave' = 0
    /\ pc' = [u \in Subscribers |-> "idle"]
    /\ failedSubscribers' = {}
    /\ evals' = [u \in Subscribers |-> NoEval]
    /\ memWrites' = 0
    /\ attempts' = [u \in Subscribers |-> NoAttempt]
    /\ handler' = IF \E u \in Subscribers : pc[u] \in {"failed", "rejected"}
                  THEN "returned after a failure" ELSE "returned"

\* await Promise.allSettled(alertPromises) returns.
FirstWaveSettled ==
    /\ wave = 1
    /\ Settled
    /\ IF failedSubscribers # {}
       THEN /\ wave' = 2
            /\ pc' = [u \in Subscribers |->
                         IF u \in RetryWave(failedSubscribers)
                         THEN "getUserAlerts" ELSE "idle"]
            /\ attempts' = [u \in Subscribers |->
                               IF u \in RetryWave(failedSubscribers)
                               THEN [attempts[u] EXCEPT !.calls = @ + 1]
                               ELSE attempts[u]]
            /\ UNCHANGED <<failedSubscribers, evals, memWrites, handler>>
       ELSE HandlerReturns
    /\ UNCHANGED <<alertsDb, now, ticks, lastSeenStock, lastCheckTime30Min, data,
                   received, first, repeats>>
    /\ UNCHANGED <<linkVars, broadcastVars, schedulerVars, serviceVars>>

\* await Promise.allSettled(retryPromises) returns.
RetryWaveSettled ==
    /\ wave = 2
    /\ Settled
    /\ HandlerReturns
    /\ UNCHANGED <<alertsDb, now, ticks, lastSeenStock, lastCheckTime30Min, data,
                   received, first, repeats>>
    /\ UNCHANGED <<linkVars, broadcastVars, schedulerVars, serviceVars>>

\* The database answers every getUserAlerts.
Next ==
    \/ \E dt \in {OneMinute, ThirtyMin} : Tick(dt)
    \/ \E d \in Snapshots : OnStockUpdate(d)
    \/ \E u \in Subscribers : GetUserAlertsReturns(u, TRUE)
    \/ \E u \in Subscribers : SendMessageOk(u)
    \/ \E u \in Subscribers : SendMessageFails(u)
    \/ FirstWaveSettled
    \/ RetryWaveSettled

Spec == Init /\ [][Next]_vars

\* ------------------------------------------------ handleBroadcastCommand

\* Neither the stock fan-out nor the link takes a step.
StockIdle == StockInit /\ alertsDb["u2"] = NoAlerts

InitBroadcast == StockIdle /\ LinkInit /\ BroadcastInit /\ SchedulerIdle /\ ServiceIdle

\* The retry that succeeds without taking the recipient off failCount.
FailCountAfterRetryKept(n) == n

\* failCount-- of the retry wave
FailCountAfterRetry(n) == n - 1

\* The admin's command passed its checks and the confirmation was sent:
\* sendMessage is called for every subscriber.
BroadcastStarts ==
    /\ broadcastWave \in {0, 3}
    /\ broadcastWave' = 1
    /\ broadcastPc' = [u \in BroadcastRecipients |-> "sendMessage"]
    /\ successCount' = 0
    /\ failCount' = 0
    /\ failedBroadcasts' = {}
    /\ sends' = [u \in BroadcastRecipients |-> [calls |-> 1, delivered |-> 0]]
    /\ UNCHANGED <<stockVars, linkVars, schedulerVars, serviceVars>>

\* sendMessage(userId, broadcastMessage) returns true.
BroadcastSent(u) ==
    /\ broadcastWave \in {1, 2}
    /\ broadcastPc[u] = "sendMessage"
    /\ broadcastPc' = [broadcastPc EXCEPT ![u] = "sent"]
    /\ successCount' = successCount + 1
    /\ failCount' = IF broadcastWave = 2 THEN FailCountAfterRetry(failCount)
                    ELSE failCount
    /\ sends' = [sends EXCEPT ![u].delivered = @ + 1]
    /\ UNCHANGED failedBroadcasts
    /\ UNCHANGED <<broadcastWave, stockVars, linkVars, schedulerVars, serviceVars>>

\* sendMessage(userId, broadcastMessage) throws.
BroadcastFails(u) ==
    /\ broadcastWave \in {1, 2}
    /\ broadcastPc[u] = "sendMessage"
    /\ broadcastPc' = [broadcastPc EXCEPT ![u] = "failed"]
    /\ failedBroadcasts' = IF broadcastWave = 1 THEN failedBroadcasts \cup {u}
                           ELSE failedBroadcasts
    /\ failCount' = IF broadcastWave = 1 THEN failCount + 1 ELSE failCount
    /\ UNCHANGED <<successCount, sends>>
    /\ UNCHANGED <<broadcastWave, stockVars, linkVars, schedulerVars, serviceVars>>

BroadcastSettled ==
    \A u \in BroadcastRecipients : broadcastPc[u] \in {"sent", "failed"}

\* await Promise.allSettled(broadcastPromises) returns: the failed
\* subscribers are sent the message again, or the result is reported.
BroadcastFirstWaveSettled ==
    /\ broadcastWave = 1
    /\ BroadcastSettled
    /\ IF failedBroadcasts # {}
       THEN /\ broadcastWave' = 2
            /\ broadcastPc' = [u \in BroadcastRecipients |->
                                  IF u \in failedBroadcasts THEN "sendMessage"
                                  ELSE broadcastPc[u]]
            /\ sends' = [u \in BroadcastRecipients |->
                            IF u \in failedBroadcasts
                            THEN [sends[u] EXCEPT !.calls = @ + 1] ELSE sends[u]]
       ELSE /\ broadcastWave' = 3
            /\ UNCHANGED <<broadcastPc, sends>>
    /\ UNCHANGED <<successCount, failCount, failedBroadcasts>>
    /\ UNCHANGED <<stockVars, linkVars, schedulerVars, serviceVars>>

\* await Promise.allSettled(retryPromises) returns: the result is reported.
BroadcastRetrySettled ==
    /\ broadcastWave = 2
    /\ BroadcastSettled
    /\ broadcastWave' = 3
    /\ UNCHANGED <<broadcastPc, successCount, failCount, failedBroadcasts, sends>>
    /\ UNCHANGED <<stockVars, linkVars, schedulerVars, serviceVars>>

NextBroadcast ==
    \/ BroadcastStarts
    \/ \E u \in BroadcastRecipients : BroadcastSent(u)
    \/ \E u \in BroadcastRecipients : BroadcastFails(u)
    \/ BroadcastFirstWaveSettled
    \/ BroadcastRetrySettled

SpecBroadcast == InitBroadcast /\ [][NextBroadcast]_vars

\* ------------------------------------------------------ WebSocketManager

\* this.maxReconnectAttempts
maxReconnectAttempts == 5

\* this.reconnectDelay, in ms
reconnectDelay == 5000

InitLink == StockIdle /\ LinkInit /\ BroadcastInit /\ SchedulerIdle /\ ServiceIdle

\* CanReconnect with the bound included.
CanReconnectInclusive(n) == n <= maxReconnectAttempts

\* attemptReconnect goes on unless reconnectAttempts >= maxReconnectAttempts
CanReconnect(n) == n < maxReconnectAttempts

\* A delay that doubles with every attempt.
ReconnectDelayDoubling(k) == reconnectDelay * 2 ^ (k - 1)

\* this.reconnectDelay * this.reconnectAttempts
ReconnectDelayFor(k) == reconnectDelay * k

\* The open handler that leaves the counter as it is.
AttemptsAfterOpenKept(n) == n

\* this.reconnectAttempts = 0 of the open handler
AttemptsAfterOpen(n) == 0

\* The error handler that leaves isConnected as it is.
ConnectedAfterErrorKept(c) == c

\* this.isConnected = false of the error handler
ConnectedAfterError(c) == FALSE

\* ---- messages of the feed

\* The keys handleMessage looks for.
StockKeys ==
    <<"seed_stock", "gear_stock", "egg_stock", "cosmetic_stock", "eventshop_stock">>

\* const categories of hasStockChanged
TrackedCategories == <<"seed_stock", "gear_stock", "egg_stock", "eventshop_stock">>

Item(id, quantity) == [item_id |-> id, quantity |-> quantity]

undefined == [present |-> FALSE, items |-> <<>>]

Stock(items) == [present |-> TRUE, items |-> items]

NoStock == [c \in Range(StockKeys) |-> undefined]

\* A payload JSON.parse accepts, with the stock it carries.
Parsed(stock) == [parsed |-> TRUE, stock |-> stock]

\* A payload JSON.parse throws on.
Unparseable == [parsed |-> FALSE, stock |-> NoStock]

KiwiApple ==
    Parsed([NoStock EXCEPT !["seed_stock"] =
                Stock(<<Item("kiwi", 1), Item("apple", 2)>>)])

AppleKiwi ==
    Parsed([NoStock EXCEPT !["seed_stock"] =
                Stock(<<Item("apple", 2), Item("kiwi", 1)>>)])

MoreKiwi ==
    Parsed([NoStock EXCEPT !["seed_stock"] =
                Stock(<<Item("kiwi", 2), Item("apple", 2)>>)])

WithEggs ==
    Parsed([NoStock EXCEPT !["seed_stock"] =
                Stock(<<Item("kiwi", 1), Item("apple", 2)>>),
            !["egg_stock"] = Stock(<<Item("bug_egg", 1)>>)])

CosmeticsOnly ==
    Parsed([NoStock EXCEPT !["cosmetic_stock"] = Stock(<<Item("crate", 1)>>)])

\* KiwiApple with an egg_stock key and no eggs under it.
EmptyEggs ==
    Parsed([NoStock EXCEPT !["seed_stock"] =
                Stock(<<Item("kiwi", 1), Item("apple", 2)>>),
            !["egg_stock"] = Stock(<<>>)])

\* What the link can deliver to ws.on('message').
Payloads ==
    {Unparseable, Parsed(NoStock), KiwiApple, AppleKiwi, MoreKiwi, WithEggs,
     CosmeticsOnly, EmptyEggs}

\* `${item.item_id}:${item.quantity}`
IdQuantity(item) == <<item.item_id, ":", item.quantity>>

\* The strings in the order Array.prototype.sort puts them in.
Collation ==
    <<IdQuantity(Item("apple", 2)), IdQuantity(Item("bug_egg", 1)),
      IdQuantity(Item("crate", 1)), IdQuantity(Item("kiwi", 1)),
      IdQuantity(Item("kiwi", 2))>>

Before(a, b) ==
    \E i, j \in DOMAIN Collation : Collation[i] = a /\ Collation[j] = b /\ i < j

RECURSIVE sort(_)
sort(strings) ==
    IF strings = <<>> THEN <<>>
    ELSE LET head == Head(strings)
             rest == sort(Tail(strings))
             smaller == SelectSeq(rest, LAMBDA x : Before(x, head))
             others == SelectSeq(rest, LAMBDA x : ~Before(x, head))
         IN smaller \o <<head>> \o others

\* SortedItems without the sort.
UnsortedItems(list) == [i \in DOMAIN list.items |-> IdQuantity(list.items[i])]

\* newData[category].map(item => `${item.item_id}:${item.quantity}`).sort()
SortedItems(list) == sort([i \in DOMAIN list.items |-> IdQuantity(list.items[i])])

\* One round of the loop of hasStockChanged.
CategoryChanged(newData, old, category) ==
    IF newData[category].present /\ old[category].present
    THEN SortedItems(newData[category]) # SortedItems(old[category])
    ELSE newData[category].present # old[category].present

hasStockChanged(newData, old) ==
    IF ~old.parsed THEN TRUE
    ELSE \E i \in DOMAIN TrackedCategories :
             CategoryChanged(newData.stock, old.stock, TrackedCategories[i])

\* HasStockKey without the test.
HasAnyKey(message) == TRUE

\* message.seed_stock || message.gear_stock || ...
HasStockKey(message) ==
    \E i \in DOMAIN StockKeys : message.stock[StockKeys[i]].present

\* Whether handleMessage hands the payload to onStockUpdate.
Forwards(payload, old) ==
    /\ payload.parsed
    /\ HasStockKey(payload)
    /\ hasStockChanged(payload, old)

\* ---- the manager

\* What a handler notes of the state it starts in.
Handling(event) ==
    [NoEvent EXCEPT !.event = event, !.wsBefore = ws,
                    !.attemptsBefore = reconnectAttempts]

\* attemptReconnect(): the counter and the timers it leaves, and the delays
\* it has handed to setTimeout.
attemptReconnect(n, pending) ==
    IF CanReconnect(n)
    THEN [reconnectAttempts |-> n + 1,
          timers |-> Append(pending, ReconnectDelayFor(n + 1)),
          scheduled |-> <<ReconnectDelayFor(n + 1)>>]
    ELSE [reconnectAttempts |-> n, timers |-> pending, scheduled |-> <<>>]

\* connect(), called with the timers in pending: new WebSocket(wsUrl) gives a
\* connecting link, or throws and the catch calls attemptReconnect. Either
\* way connect() returns.
connect(constructorThrows, event, pending) ==
    IF constructorThrows
    THEN LET r == attemptReconnect(reconnectAttempts, pending)
         IN /\ reconnectAttempts' = r.reconnectAttempts
            /\ timers' = r.timers
            /\ last' = [Handling(event) EXCEPT !.scheduled = r.scheduled]
            /\ UNCHANGED <<ws, isConnected, lastStockData, links>>
    ELSE /\ ws' = "CONNECTING"
         /\ links' = links + 1
         /\ timers' = pending
         /\ last' = Handling(event)
         /\ UNCHANGED <<isConnected, reconnectAttempts, lastStockData>>

\* initializeApp: websocketManager.connect()
Connect(constructorThrows) ==
    /\ ws = "null"
    /\ reconnectAttempts = 0
    /\ connect(constructorThrows, "connect", timers)
    /\ stopped' = FALSE
    /\ UNCHANGED <<stockVars, broadcastVars, schedulerVars, serviceVars>>

\* A timer that fires again and again.
Repeating(pending, i) == pending

\* setTimeout: the timers left when the i-th of them has fired
OneShot(pending, i) ==
    SubSeq(pending, 1, i - 1) \o SubSeq(pending, i + 1, Len(pending))

\* A link that is connecting or open.
Live(readyState) == readyState \in {"CONNECTING", "OPEN"}

\* The count of such links when the link of the manager has left state
\* readyState for a state that is neither.
LinksAfterLeaving(readyState) == IF Live(readyState) THEN links - 1 ELSE links

\* A reconnect timer fires: connect()
ReconnectTimerFires(constructorThrows) ==
    /\ \E i \in DOMAIN timers :
           connect(constructorThrows, "timer", OneShot(timers, i))
    /\ UNCHANGED stopped
    /\ UNCHANGED <<stockVars, broadcastVars, schedulerVars, serviceVars>>

\* ws.on('open')
Open ==
    /\ ws = "CONNECTING"
    /\ ws' = "OPEN"
    /\ isConnected' = TRUE
    /\ reconnectAttempts' = AttemptsAfterOpen(reconnectAttempts)
    /\ last' = [Handling("open") EXCEPT !.onConnect = 1]
    /\ UNCHANGED <<timers, lastStockData, stopped, links>>
    /\ UNCHANGED <<stockVars, broadcastVars, schedulerVars, serviceVars>>

\* ws.on('message')
Message(payload) ==
    /\ ws = "OPEN"
    /\ IF Forwards(payload, lastStockData)
       THEN /\ lastStockData' = payload
            /\ last' = [Handling("message") EXCEPT !.payload = payload,
                                                   !.onStockUpdate = 1]
       ELSE /\ UNCHANGED lastStockData
            /\ last' = [Handling("message") EXCEPT !.payload = payload]
    /\ UNCHANGED <<ws, isConnected, reconnectAttempts, timers, stopped, links>>
    /\ UNCHANGED <<stockVars, broadcastVars, schedulerVars, serviceVars>>

\* ws.on('error'): the handshake or the open link has failed. The link is
\* being closed and its close event is still to come.
Error ==
    /\ ws \in {"CONNECTING", "OPEN", "ABORTING"}
    /\ ws' = "CLOSING"
    /\ isConnected' = ConnectedAfterError(isConnected)
    /\ last' = [Handling("error") EXCEPT !.onError = 1]
    /\ links' = LinksAfterLeaving(ws)
    /\ UNCHANGED <<reconnectAttempts, timers, lastStockData, stopped>>
    /\ UNCHANGED <<stockVars, broadcastVars, schedulerVars, serviceVars>>

\* ws.on('close'): after an error, after close(), or the server has closed
\* the open link.
Close ==
    /\ ws \in {"OPEN", "CLOSING"}
    /\ ws' = "CLOSED"
    /\ isConnected' = FALSE
    /\ LET r == attemptReconnect(reconnectAttempts, timers)
       IN /\ reconnectAttempts' = r.reconnectAttempts
          /\ timers' = r.timers
          /\ last' = [Handling("close") EXCEPT !.onDisconnect = 1,
                                               !.scheduled = r.scheduled]
    /\ links' = LinksAfterLeaving(ws)
    /\ UNCHANGED <<lastStockData, stopped>>
    /\ UNCHANGED <<stockVars, broadcastVars, schedulerVars, serviceVars>>

\* A close() that goes one step further each time it is called.
closeAgain(readyState) ==
    CASE readyState = "CONNECTING" -> "ABORTING"
      [] readyState = "OPEN" -> "CLOSING"
      [] readyState = "CLOSING" -> "CLOSED"
      [] OTHER -> readyState

\* this.ws.close(): the readyState it leaves the link in
close(readyState) ==
    CASE readyState = "CONNECTING" -> "ABORTING"
      [] readyState = "OPEN" -> "CLOSING"
      [] OTHER -> readyState

\* isConnectionActive with the counter in place of the link.
isConnectionActiveByCounter == isConnected /\ reconnectAttempts = 0

\* this.isConnected && this.ws && this.ws.readyState === WebSocket.OPEN
isConnectionActive == isConnected /\ ws # "null" /\ ws = "OPEN"

\* disconnect(): if (this.ws) this.ws.close(). close() of a connecting link
\* aborts the handshake (an error event, then a close event), close() of an
\* open link starts the closing handshake, close() of any other link does
\* nothing.
Disconnect ==
    /\ ws' = IF ws # "null" THEN close(ws) ELSE ws
    /\ last' = Handling("disconnect")
    /\ stopped' = (stopped \/ ws = "OPEN")
    /\ links' = LinksAfterLeaving(ws)
    /\ UNCHANGED <<isConnected, reconnectAttempts, timers, lastStockData>>
    /\ UNCHANGED <<stockVars, broadcastVars, schedulerVars, serviceVars>>

NextLink ==
    \/ \E constructorThrows \in BOOLEAN : Connect(constructorThrows)
    \/ \E constructorThrows \in BOOLEAN : ReconnectTimerFires(constructorThrows)
    \/ Open
    \/ \E payload \in Payloads : Message(payload)
    \/ Error
    \/ Close
    \/ Disconnect

SpecLink == InitLink /\ [][NextLink]_vars

\* The close event of a link that failed is delivered.
SpecLinkLive == SpecLink /\ WF_vars(Close)

\* -------------------------------------------------------- the scheduler

\* RoundUp that rounds down.
RoundDown(minutes) == (minutes \div CheckIntervalMinutes) * CheckIntervalMinutes

\* Math.ceil(minutes / 5) * 5
RoundUp(minutes) ==
    ((minutes + CheckIntervalMinutes - 1) \div CheckIntervalMinutes)
        * CheckIntervalMinutes

\* getNextCheckTime() called at time t: the time of the UTC+8 clock with its
\* minutes rounded up to the interval and its seconds and milliseconds zero,
\* as a time of the UTC clock again. setUTCMinutes(60) is the next hour.
getNextCheckTime(t) ==
    LET phTime == t + Offset
        minutes == (phTime \div Minute) % 60
        hour == phTime - (phTime % Hour)
        nextCheck == hour + RoundUp(minutes) * Minute
    IN nextCheck - Offset

\* Times of day around 14:30 and around 15:00.
Times ==
    {At(h, m, s, ms) : h \in {14}, m \in {25, 28, 29, 30, 31, 55, 59},
                       s \in {0, 17, 59}, ms \in {0, 1, 999}}

\* Times the process may have started at.
ProcessStarts == {At(9, 0, 0, 0), At(14, 27, 43, 0)}

\* getNextCheckTime is called at any of Times in a process started earlier.
InitDeadline ==
    /\ StockIdle /\ LinkInit /\ BroadcastInit /\ SchedulerInit /\ ServiceIdle
    /\ clock \in Times
    /\ processStart \in ProcessStarts
    /\ subscribed = Subscribers

\* A scheduleNextCheck that sets no timer.
scheduleNothing(pending, t) == pending

\* scheduleNextCheck() called at time t: setTimeout(..., nextCheck - Date.now())
scheduleNextCheck(pending, t) == Append(pending, getNextCheckTime(t))

\* initializeApp: scheduleNextCheck()
ScheduleFirst ==
    /\ schedPc = "init"
    /\ checkTimers' = scheduleNextCheck(checkTimers, clock)
    /\ schedPc' = "waiting"
    /\ UNCHANGED <<clock, processStart, lastScheduledCheck, subscribed, firings,
                   firing>>
    /\ UNCHANGED <<stockVars, linkVars, broadcastVars, serviceVars>>

SpecDeadline == InitDeadline /\ [][ScheduleFirst]_vars

\* Cap of the firings counter.
MaxFirings == 4

\* How long after its deadline a timer fires, in ms.
Drifts == {0, 20 * Second}

\* How long checkStock takes, in ms.
Durations == {0, 2 * Second}

\* The scheduler starts at 14:27:43 or on the grid, with or without
\* subscribers.
InitScheduler ==
    /\ StockIdle /\ LinkInit /\ BroadcastInit /\ SchedulerInit /\ ServiceIdle
    /\ clock \in {At(14, 27, 43, 0), At(14, 30, 0, 0)}
    /\ processStart = clock
    /\ subscribed \in {{}, Subscribers}

\* The guard that lets every firing through.
IsDuplicateNever(currentTime, lastCheck) == FALSE

\* currentTime - lastScheduledCheck < 4 * 60 * 1000
IsDuplicate(currentTime, lastCheck) == currentTime - lastCheck < FourMinutes

\* The poll that runs whatever the link does.
ShouldPollAlways(active) == TRUE

\* if (!websocketManager.isConnectionActive())
ShouldPoll(active) == ~active

\* The methods of class APIClient.
APIClientMethods == {"getStock", "getWeather", "getNotifications", "getGardenStatus"}

\* How await apiClient.get('/v2/growagarden/stock') can end: a call of what
\* is not a method throws a TypeError.
GetOutcomes ==
    IF "get" \in APIClientMethods THEN {"data", "error"} ELSE {"TypeError"}

Max(a, b) == IF a >= b THEN a ELSE b

\* The timer of scheduleNextCheck fires, at its deadline or later, and its
\* callback runs up to its end or to the await of checkStock.
CheckTimerFires(drift) ==
    /\ schedPc = "waiting"
    /\ firings < MaxFirings
    /\ \E i \in DOMAIN checkTimers :
        LET currentTime == Max(clock, checkTimers[i]) + drift
            pending == SubSeq(checkTimers, 1, i - 1)
                           \o SubSeq(checkTimers, i + 1, Len(checkTimers))
            fired == [NoFiring EXCEPT !.at = currentTime,
                                      !.sinceLast = currentTime - lastScheduledCheck,
                                      !.subscribers = subscribed,
                                      !.active = isConnectionActive]
        IN /\ clock' = currentTime
           /\ firings' = firings + 1
           /\ IF IsDuplicate(currentTime, lastScheduledCheck)
              THEN /\ checkTimers' = scheduleNextCheck(pending, currentTime)
                   /\ firing' = [fired EXCEPT !.kind = "duplicate", !.armed = 1]
                   /\ UNCHANGED <<lastScheduledCheck, schedPc>>
              ELSE IF subscribed = {}
              THEN /\ checkTimers' = scheduleNextCheck(pending, currentTime)
                   /\ firing' = [fired EXCEPT !.kind = "no subscribers", !.armed = 1]
                   /\ UNCHANGED <<lastScheduledCheck, schedPc>>
              ELSE IF ShouldPoll(isConnectionActive)
              THEN /\ lastScheduledCheck' = currentTime
                   /\ checkTimers' = pending
                   /\ firing' = [fired EXCEPT !.kind = "run",
                                              !.calledCheckStock = TRUE]
                   /\ schedPc' = "checkStock"
              ELSE /\ lastScheduledCheck' = currentTime
                   /\ checkTimers' = scheduleNextCheck(pending, currentTime)
                   /\ firing' = [fired EXCEPT !.kind = "active", !.armed = 1]
                   /\ UNCHANGED schedPc
    /\ UNCHANGED <<processStart, subscribed>>
    /\ UNCHANGED <<stockVars, linkVars, broadcastVars, serviceVars>>

\* checkStock(null, true) settles: the snapshot was fetched and every
\* subscriber evaluated against it, or the catch of checkStock has logged
\* the error; the callback goes on to scheduleNextCheck().
CheckStockSettles(outcome, duration) ==
    /\ schedPc = "checkStock"
    /\ clock' = clock + duration
    /\ firing' = [firing EXCEPT !.fetched = (outcome = "data"),
                                !.evaluated =
                                    IF outcome = "data" THEN subscribed ELSE {},
                                !.threw = (outcome # "data"),
                                !.armed = 1]
    /\ checkTimers' = scheduleNextCheck(checkTimers, clock + duration)
    /\ schedPc' = "waiting"
    /\ UNCHANGED <<processStart, lastScheduledCheck, subscribed, firings>>
    /\ UNCHANGED <<stockVars, linkVars, broadcastVars, serviceVars>>

\* The scheduler next to the link it asks, whose constructor does not throw.
NextScheduler ==
    \/ ScheduleFirst
    \/ \E drift \in Drifts : CheckTimerFires(drift)
    \/ \E outcome \in GetOutcomes : \E duration \in Durations :
           CheckStockSettles(outcome, duration)
    \/ Connect(FALSE)
    \/ ReconnectTimerFires(FALSE)
    \/ Open
    \/ Close

SpecScheduler == InitScheduler /\ [][NextScheduler]_vars

\* checkStock settles.
SpecSchedulerLive ==
    SpecScheduler /\ WF_vars(\E outcome \in GetOutcomes : \E duration \in Durations :
                                 CheckStockSettles(outcome, duration))

\* ------------------------------------------------------ APIClient.getStock

\* Nothing but the API client, the commands and the sender takes a step.
Idle == StockIdle /\ LinkInit /\ BroadcastInit /\ SchedulerIdle

InitGetStock == Idle /\ ServiceIdle

\* The values of the parameter retries, the default among them.
Retries == {0, 1, 2, DefaultRetries, 5}

\* How this.client.get can end: with status 200, with another status axios
\* takes for a success, or with an error (a status outside 2xx, a timeout).
Answers == {"200", "204", "error"}

Min(a, b) == IF a <= b THEN a ELSE b

\* The delay without its cap.
BackoffUncapped(k) == 1000 * 2^(k - 1)

\* Math.min(1000 * Math.pow(2, attempt - 1), 5000)
Backoff(k) == Min(1000 * 2^(k - 1), 5000)

\* getStock(r) is called: let attempt = 1; attempt <= retries
GetStockCalled(r) ==
    /\ getStockPc = "idle"
    /\ retries' = r
    /\ attempt' = 1
    /\ getStockPc' = IF 1 <= r THEN "request" ELSE "returned"
    /\ result' = IF 1 <= r THEN NoResult ELSE [kind |-> "undefined", of |-> 0]
    /\ UNCHANGED <<requests, waits>>
    /\ UNCHANGED <<stockVars, linkVars, broadcastVars, schedulerVars, formatVars,
                   commandVars, overlapVars, sendVars, checkVars>>

\* The request of this round is answered: getStock returns response.data,
\* or catches what the request or the status check threw and rethrows it in
\* the last round, or starts to wait.
RequestAnswered(answer) ==
    /\ getStockPc = "request"
    /\ requests' = Append(requests, answer)
    /\ IF answer = "200"
       THEN /\ getStockPc' = "returned"
            /\ result' = [kind |-> "data", of |-> attempt]
            /\ UNCHANGED waits
       ELSE IF attempt = retries
       THEN /\ getStockPc' = "thrown"
            /\ result' = [kind |-> "error", of |-> attempt]
            /\ UNCHANGED waits
       ELSE /\ getStockPc' = "waiting"
            /\ waits' = Append(waits, Backoff(attempt))
            /\ UNCHANGED result
    /\ UNCHANGED <<retries, attempt>>
    /\ UNCHANGED <<stockVars, linkVars, broadcastVars, schedulerVars, formatVars,
                   commandVars, overlapVars, sendVars, checkVars>>

\* The delay is over: attempt++, attempt <= retries
WaitOver ==
    /\ getStockPc = "waiting"
    /\ attempt' = attempt + 1
    /\ getStockPc' = "request"
    /\ UNCHANGED <<retries, requests, waits, result>>
    /\ UNCHANGED <<stockVars, linkVars, broadcastVars, schedulerVars, formatVars,
                   commandVars, overlapVars, sendVars, checkVars>>

NextGetStock ==
    \/ \E r \in Retries : GetStockCalled(r)
    \/ \E answer \in Answers : RequestAnswered(answer)
    \/ WaitOver

SpecGetStock == InitGetStock /\ [][NextGetStock]_vars

\* --------------------------------------------------------- formatItemName

InitFormat == Idle /\ ServiceIdle

\* Lowercase words of one or two letters.
Words ==
    {<<a>> : a \in {"a", "z"}} \cup {<<a, b>> : a \in {"a", "z"}, b \in {"a", "z"}}

\* Item ids of one to three words joined by underscores, kiwi and
\* bell_pepper.
ItemNames ==
    Words
    \cup {v \o <<"_">> \o w : v \in Words, w \in Words}
    \cup {u \o <<"_">> \o v \o <<"_">> \o w : u \in Words, v \in Words, w \in Words}
    \cup {<<"k", "i", "w", "i">>,
          <<"b", "e", "l", "l", "_", "p", "e", "p", "p", "e", "r">>}

\* formatItemName(itemId), itemId a string that is not empty
FormatItemName(chars) ==
    /\ displayName = <<>>
    /\ itemChars' = chars
    /\ displayName' = TitleCase(chars)
    /\ UNCHANGED <<stockVars, linkVars, broadcastVars, schedulerVars, getStockVars,
                   commandVars, overlapVars, sendVars, checkVars>>

NextFormat == \E chars \in ItemNames : FormatItemName(chars)

SpecFormat == InitFormat /\ [][NextFormat]_vars

\* ------------------------------------------------------------- commands

InitCommands == Idle /\ ServiceIdle

\* Cap of the commands counter.
MaxCommands == 6

\* COOLDOWN_TIME = 5 * 60 * 1000
COOLDOWN_TIME == 5 * 60 * 1000

dailyCommandLimit == 100

messageRateLimit == 5

messageRateWindow == 60 * 1000

\* new Date().setHours(0, 0, 0, 0)
Today == Midnight

\* The time between two commands of the user: a second, or five minutes.
Gaps == {Second, 5 * Minute}

\* Date.now() read again within the same turn: the same millisecond or the
\* next.
Elapsed == {0, 1}

\* number < globalCommandCooldown, globalCommandCooldown a Map: the Map
\* converts to NaN and the comparison is false.
LessThanMap(n) == FALSE

RECURSIVE filter(_, _)
\* userTimestamps.filter(timestamp => now - timestamp < messageRateWindow)
filter(timestamps, t) ==
    IF timestamps = <<>> THEN <<>>
    ELSE IF t - Head(timestamps) < messageRateWindow
    THEN <<Head(timestamps)>> \o filter(Tail(timestamps), t)
    ELSE filter(Tail(timestamps), t)

\* The count isRateLimited finds after its reset of a new day.
CountAfterReset == IF lastCommandReset < Today THEN 0 ELSE dailyCommandCount

\* isRateLimited(senderId, rateLimitConfig).limited at time t, and which of
\* the three checks said so. lastCommandTime is never written: lastCommand
\* is 0.
isRateLimited(t) ==
    IF LessThanMap(t - 0) THEN "cooldown"
    ELSE IF CountAfterReset >= dailyCommandLimit THEN "daily"
    ELSE IF Len(filter(messageTimestamps, t)) >= messageRateLimit THEN "rate"
    ELSE "no"

\* What isRateLimited writes at time t, then updateRateLimits if accepted.
RateLimitsWritten(t, accepted) ==
    LET limited == isRateLimited(t)
        filtered == limited \in {"no", "rate"}
    IN /\ lastCommandReset' = IF limited # "cooldown" /\ lastCommandReset < Today
                               THEN t ELSE lastCommandReset
       /\ dailyCommandCount' = IF limited = "cooldown" THEN dailyCommandCount
                                ELSE CountAfterReset + (IF accepted THEN 1 ELSE 0)
       /\ messageTimestamps' =
              IF ~filtered THEN messageTimestamps
              ELSE IF accepted THEN Append(filter(messageTimestamps, t), t)
              ELSE filter(messageTimestamps, t)
       /\ lastAccepted' = IF accepted THEN t ELSE lastAccepted

\* The record of a command that arrives at time t.
Arrived(kind, t) ==
    [NoCommand EXCEPT !.kind = kind, !.at = t,
                      !.sinceAccepted = IF lastAccepted = 0 THEN 0 ELSE t - lastAccepted,
                      !.sinceCheck = IF lastCheckTime = 0 THEN 0 ELSE t - lastCheckTime,
                      !.limited = isRateLimited(t)]

\* checkStock(senderId, false) up to its fetch, called at time t with
\* lastCheckTime just set to lastCheck: the cooldown check again, then
\* apiClient.get and checkStockForUser, or the catch.
checkStock(arrived, t, lastCheck, outcome) ==
    IF t - lastCheck < COOLDOWN_TIME
    THEN [arrived EXCEPT !.cooldownMessage = TRUE]
    ELSE [arrived EXCEPT !.fetched = (outcome = "data"),
                         !.evaluated = (outcome = "data"),
                         !.errorMessage = (outcome # "data")]

\* handleStockCommand(senderId) at time commandNow + gap
StockCommand(gap, elapsed, outcome) ==
    LET t == commandNow + gap
        arrived == Arrived("stock", t)
        limited == isRateLimited(t) # "no"
        cooling == t - lastCheckTime < COOLDOWN_TIME
        accepted == ~limited /\ ~cooling
    IN /\ commands < MaxCommands
       /\ commands' = commands + 1
       /\ commandNow' = t + (IF accepted THEN elapsed ELSE 0)
       /\ RateLimitsWritten(t, accepted)
       /\ lastCheckTime' = IF accepted THEN t ELSE lastCheckTime
       /\ command' =
              IF limited THEN arrived
              ELSE IF cooling THEN [arrived EXCEPT !.cooldownMessage = TRUE]
              ELSE checkStock(arrived, t + elapsed, t, outcome)
       /\ UNCHANGED <<stockVars, linkVars, broadcastVars, schedulerVars,
                      getStockVars, formatVars, overlapVars, sendVars, checkVars>>

\* handleHelpCommand(senderId) at time commandNow + gap
HelpCommand(gap) ==
    LET t == commandNow + gap
        accepted == isRateLimited(t) = "no"
    IN /\ commands < MaxCommands
       /\ commands' = commands + 1
       /\ commandNow' = t
       /\ RateLimitsWritten(t, accepted)
       /\ command' = Arrived("help", t)
       /\ UNCHANGED lastCheckTime
       /\ UNCHANGED <<stockVars, linkVars, broadcastVars, schedulerVars,
                      getStockVars, formatVars, overlapVars, sendVars, checkVars>>

NextCommands ==
    \/ \E gap \in Gaps : \E elapsed \in Elapsed : \E outcome \in GetOutcomes :
           StockCommand(gap, elapsed, outcome)
    \/ \E gap \in Gaps : HelpCommand(gap)

SpecCommands == InitCommands /\ [][NextCommands]_vars

\* ------------------------------------- two stock updates, one after the other

InitOverlap == Idle /\ ServiceIdle

\* Snapshots of kiwi, of bug_egg, or of both, which the default list watches.
UpdateSnapshots ==
    {d \in Snapshots :
        /\ d # NoSnapshot
        /\ d.seed_stock \in {AbsentCategory, List(<<"kiwi">>)}
        /\ d.egg_stock \in {AbsentCategory, List(<<"bug_egg">>)}
        /\ d.gear_stock = AbsentCategory
        /\ d.eventshop_stock = AbsentCategory}

\* Every call of checkStockForUser of the wave of call s has ended.
FanSettled(s) == \A u \in Subscribers : fanPc[s][u] \in {"idle", "done", "failed"}

\* if (this.onStockUpdate) this.onStockUpdate(message): the handler is
\* called for a message and not awaited, so the second call starts at any
\* time after the first has started.
Starts(s) == s = 1 \/ fanWave[1] # 0

\* The s-th message that hasStockChanged lets through arrives: onStockUpdate
\* starts checkStockForUser of every subscriber, each up to its await of
\* getUserAlerts.
UpdateArrives(s, d) ==
    /\ fanWave[s] = 0
    /\ Starts(s)
    /\ s = 2 => d # fanData[1]
    /\ fanData' = [fanData EXCEPT ![s] = d]
    /\ fanWave' = [fanWave EXCEPT ![s] = 1]
    /\ fanPc' = [fanPc EXCEPT ![s] = [u \in Subscribers |-> "getUserAlerts"]]
    /\ UNCHANGED <<fanFailed, memAccess, stockVars>>
    /\ UNCHANGED <<linkVars, broadcastVars, schedulerVars, getStockVars, formatVars,
                   commandVars, sendVars, checkVars>>

\* getUserAlerts of subscriber u returns in call s, and checkStockForUser
\* evaluates the snapshot of the call against the category memory.
FanEvaluates(s, u) ==
    /\ fanWave[s] \in {1, 2}
    /\ fanPc[s][u] = "getUserAlerts"
    /\ LET r == Evaluation(fanData[s], SelectAlerts(alertsDb[u]), lastSeenStock,
                           lastCheckTime30Min, now)
       IN /\ lastSeenStock' = r.lastSeenStock
          /\ lastCheckTime30Min' = r.lastCheckTime30Min
          /\ memAccess' = Append(memAccess, [snapshot |-> s, wrote |-> r.wrote])
          /\ fanPc' = [fanPc EXCEPT ![s][u] =
                          IF ShouldSend(r.foundItems) THEN "sendMessage" ELSE "done"]
    /\ UNCHANGED <<fanData, fanWave, fanFailed, fanOutVars>>
    /\ UNCHANGED <<linkVars, broadcastVars, schedulerVars, getStockVars, formatVars,
                   commandVars, sendVars, checkVars>>

\* sendMessage of subscriber u returns true in call s, or throws.
FanSendMessageReturns(s, u, sent) ==
    /\ fanPc[s][u] = "sendMessage"
    /\ fanPc' = [fanPc EXCEPT ![s][u] = IF sent THEN "done" ELSE "failed"]
    /\ fanFailed' = IF ~sent /\ fanWave[s] = 1
                    THEN [fanFailed EXCEPT ![s] = @ \cup {u}] ELSE fanFailed
    /\ UNCHANGED <<fanData, fanWave, memAccess, stockVars>>
    /\ UNCHANGED <<linkVars, broadcastVars, schedulerVars, getStockVars, formatVars,
                   commandVars, sendVars, checkVars>>

\* await Promise.allSettled(...) returns in call s: the retry wave starts,
\* or the handler returns.
FanWaveSettled(s) ==
    /\ fanWave[s] \in {1, 2}
    /\ FanSettled(s)
    /\ IF fanWave[s] = 1 /\ fanFailed[s] # {}
       THEN /\ fanWave' = [fanWave EXCEPT ![s] = 2]
            /\ fanPc' = [fanPc EXCEPT ![s] =
                            [u \in Subscribers |->
                                IF u \in fanFailed[s] THEN "getUserAlerts" ELSE "idle"]]
       ELSE /\ fanWave' = [fanWave EXCEPT ![s] = 3]
            /\ fanPc' = [fanPc EXCEPT ![s] = [u \in Subscribers |-> "idle"]]
    /\ UNCHANGED <<fanData, fanFailed, memAccess, stockVars>>
    /\ UNCHANGED <<linkVars, broadcastVars, schedulerVars, getStockVars, formatVars,
                   commandVars, sendVars, checkVars>>

NextOverlap ==
    \/ \E s \in Calls : \E d \in UpdateSnapshots : UpdateArrives(s, d)
    \/ \E s \in Calls : \E u \in Subscribers : FanEvaluates(s, u)
    \/ \E s \in Calls : \E u \in Subscribers : \E sent \in BOOLEAN :
           FanSendMessageReturns(s, u, sent)
    \/ \E s \in Calls : FanWaveSettled(s)

SpecOverlap == InitOverlap /\ [][NextOverlap]_vars

\* ------------------------------------------------ sendMessage with its retry

InitSend == Idle /\ ServiceIdle

\* Cap of the number of requests.
MaxSendRequests == 5

\* How axios.post can end: with status 200, with another 2xx status, with an
\* error of the Messenger API (its code 4, 17, or another such as 100), or
\* with an error that has no response.
SendAnswers == {"200", "201", "code 4", "code 17", "code 100", "no response"}

\* fbError.code === 4 || fbError.code === 17
IsRateLimit(answer) == answer \in {"code 4", "code 17"}

\* sendMessage(recipientId, message) is called.
SendMessageCalled ==
    /\ sendPc = "idle"
    /\ sendPc' = "request"
    /\ UNCHANGED <<sendRequests, sendWaits, sendResult>>
    /\ UNCHANGED <<stockVars, linkVars, broadcastVars, schedulerVars, getStockVars,
                   formatVars, commandVars, overlapVars, checkVars>>

\* The request is answered: sendMessage returns true or false, or starts to
\* wait before it calls itself.
SendAnswered(answer) ==
    /\ sendPc = "request"
    /\ Len(sendRequests) < MaxSendRequests
    /\ sendRequests' = Append(sendRequests, answer)
    /\ sendPc' = IF IsRateLimit(answer) THEN "waiting" ELSE "returned"
    /\ sendResult' = IF answer = "200" THEN "true"
                     ELSE IF IsRateLimit(answer) THEN sendResult ELSE "false"
    /\ UNCHANGED sendWaits
    /\ UNCHANGED <<stockVars, linkVars, broadcastVars, schedulerVars, getStockVars,
                   formatVars, commandVars, overlapVars, checkVars>>

\* The 5 seconds are over: return sendMessage(recipientId, message)
SendAgain ==
    /\ sendPc = "waiting"
    /\ sendWaits' = sendWaits + 1
    /\ sendPc' = "request"
    /\ UNCHANGED <<sendRequests, sendResult>>
    /\ UNCHANGED <<stockVars, linkVars, broadcastVars, schedulerVars, getStockVars,
                   formatVars, commandVars, overlapVars, checkVars>>

NextSend ==
    \/ SendMessageCalled
    \/ \E answer \in SendAnswers : SendAnswered(answer)
    \/ SendAgain

SpecSend == InitSend /\ [][NextSend]_vars

\* ------------------------------------------------- checkStock of index.js

InitChecks == Idle /\ ServiceIdle

\* Cap of the checks counter.
MaxChecks == 2

\* defaultAlerts of index.js
indexDefaultAlerts ==
    [seed_stock |-> <<"grape", "mango", "pepper", "cacao", "mushroom", "ember_lily",
                      "coconut">>,
     gear_stock |-> <<"advanced_sprinkler", "master_sprinkler", "godly_sprinkler",
                      "lightning_rod", "friendship_pot">>,
     egg_stock |-> <<"bug_egg", "mythical_egg", "legendary_egg">>,
     eventshop_stock |-> <<"bee_egg", "honey_sprinkler", "nectar_staff">>]

\* Who checkStock(senderId, isScheduled) sends what it found to: the sender,
\* or every subscriber of a scheduled check, or nobody.
Recipients(kind) ==
    IF kind = "manual" THEN {"u1"}
    ELSE IF kind = "scheduled" THEN Subscribers
    ELSE {}

\* checkStock(senderId, isScheduled) of index.js, called dt after the call
\* before: the cooldown of a manual check, the fetch, the evaluation of the
\* snapshot d against the default list and the category memory, the sends.
indexCheckStock(kind, d, dt, fetched) ==
    LET t == checkNow + dt
        cooling == kind = "manual" /\ t - manualCheckTime < COOLDOWN_TIME
        evaluated == ~cooling /\ fetched
        r == Evaluation(d, indexDefaultAlerts, lastSeenStock, lastCheckTime30Min, t)
    IN /\ checks < MaxChecks
       /\ checks' = checks + 1
       /\ checkNow' = t
       /\ manualCheckTime' = IF kind = "manual" /\ ~cooling THEN t ELSE manualCheckTime
       /\ lastSeenStock' = IF evaluated THEN r.lastSeenStock ELSE lastSeenStock
       /\ lastCheckTime30Min' =
              IF evaluated THEN r.lastCheckTime30Min ELSE lastCheckTime30Min
       /\ check' = [kind |-> kind, evaluated |-> evaluated,
                    foundItems |-> IF evaluated THEN r.foundItems ELSE <<>>,
                    sentTo |-> IF evaluated /\ ShouldSend(r.foundItems)
                               THEN Recipients(kind) ELSE {}]
       /\ UNCHANGED fanOutVars
       /\ UNCHANGED <<linkVars, broadcastVars, schedulerVars, getStockVars,
                      formatVars, commandVars, overlapVars, sendVars>>

\* checkStock(null), called once when the process starts
StartupCheck(d, fetched) ==
    /\ checks = 0
    /\ indexCheckStock("start", d, 0, fetched)

\* checkStock(senderId), called for the stock command of a user
ManualCheck(d, dt, fetched) == indexCheckStock("manual", d, dt, fetched)

\* checkStock(null, true), called by the timer of scheduleNextCheck
ScheduledCheck(d, dt, fetched) ==
    /\ checks > 0
    /\ indexCheckStock("scheduled", d, dt, fetched)

NextChecks ==
    \/ \E d \in Snapshots : \E fetched \in BOOLEAN : StartupCheck(d, fetched)
    \/ \E d \in Snapshots : \E dt \in {OneMinute, ThirtyMin} :
           \E fetched \in BOOLEAN : ManualCheck(d, dt, fetched)
    \/ \E d \in Snapshots : \E dt \in {OneMinute, ThirtyMin} :
           \E fetched \in BOOLEAN : ScheduledCheck(d, dt, fetched)

SpecChecks == InitChecks /\ [][NextChecks]_vars

\* ----------------------------------------------------------- properties

InFound(foundItems, category) ==
    \E i \in DOMAIN foundItems : foundItems[i].category = category

\* The step in which checkStockForUser of u evaluates the snapshot.
EvalStep(u) == pc[u] = "getUserAlerts" /\ pc'[u] # "getUserAlerts"

ImmediateMatched(foundItems) == \E c \in ImmCats : InFound(foundItems, c)

\* The watched items a snapshot holds under a category.
Watched(snapshot, alertsToCheck, category) ==
    {item \in ItemSet(snapshot, category) : includes(alertsToCheck[category], item)}

\* C1: while a snapshot is fanned out, category memory is written at most
\* once, and no evaluation of a subscriber has run before that write: every
\* evaluation has seen all the writes made for the snapshot.
C1_MemoryWrittenOnceBeforeEvaluations ==
    /\ memWrites <= 1
    /\ \A u \in Subscribers :
           evals[u].evaluated => evals[u].writesSeen = memWrites

\* C2: two subscribers evaluated with the same watch list against one
\* snapshot get the same 'has new item' result for each slow category and
\* include or omit the category alike.
C2_SameNoveltyForSameWatchList ==
    \A u1, u2 \in Subscribers : \A c \in SlowCats :
        (/\ evals[u1].evaluated
         /\ evals[u2].evaluated
         /\ evals[u1].alertsToCheck = evals[u2].alertsToCheck)
        => /\ evals[u1].hasNewItems[c] = evals[u2].hasNewItems[c]
           /\ InFound(evals[u1].foundItems, c) = InFound(evals[u2].foundItems, c)

\* C3: an evaluation of a snapshot equal to the previous one, made less than
\* 30 minutes after the category's last notification time and with no
\* immediate category in the alert, does not include the slow category.
C3_UnchangedWithinWindowNotIncluded ==
    [][\A u \in Subscribers : \A c \in SlowCats :
          (/\ EvalStep(u)
           /\ repeats >= 2
           /\ now - lastCheckTime30Min[c] < ThirtyMin
           /\ ~ImmediateMatched(evals'[u].foundItems))
          => ~InFound(evals'[u].foundItems, c)]_vars

\* C4, for the first snapshot received, where every item is in no earlier
\* snapshot: each evaluation of a subscriber whose watch list contains an
\* item of a slow category includes that category.
C4_FirstAppearanceIncluded ==
    [][\A u \in Subscribers : \A c \in SlowCats :
          (/\ EvalStep(u)
           /\ first
           /\ Watched(data, evals'[u].alertsToCheck, c) # {})
          => InFound(evals'[u].foundItems, c)]_vars

\* C5, its last part: the third of three successive equal snapshots, evaluated
\* 30 minutes or more after the category's last notification with no immediate
\* category in the alert, includes the slow category whose watched items it holds.
C5_EligibleAgainAfterThirtyMinutes ==
    [][\A u \in Subscribers : \A c \in SlowCats :
          (/\ EvalStep(u)
           /\ repeats >= 3
           /\ Watched(data, evals'[u].alertsToCheck, c) # {}
           /\ lastCheckTime30Min[c] # 0
           /\ now - lastCheckTime30Min[c] >= ThirtyMin
           /\ ~ImmediateMatched(evals'[u].foundItems))
          => InFound(evals'[u].foundItems, c)]_vars

C7_ImmediateIncludedIffWatchedPresent ==
    \A u \in Subscribers : \A c \in ImmCats :
        evals[u].evaluated
        => (InFound(evals[u].foundItems, c)
            <=> Watched(data, evals[u].alertsToCheck, c) # {})

\* An immediate category is in the alert for a snapshot equal to the previous one.
C7_Witness ==
    \E u \in Subscribers :
        /\ evals[u].evaluated
        /\ repeats >= 2
        /\ InFound(evals[u].foundItems, "seed_stock")

Kiwi == <<"K", "i", "w", "i">>

KiwiOnly == [NoAlerts EXCEPT !["seed_stock"] = <<"kiwi">>]

HasBullet(text, name) ==
    \E i \in DOMAIN text.blocks :
        \E j \in DOMAIN text.blocks[i].bullets : text.blocks[i].bullets[j] = name

\* C9: every item an alert names is held by the snapshot under the block's
\* category and is in the watch list for that category, and the alert text
\* shows its display name; with watch list seed [kiwi], a snapshot with seed
\* [kiwi] gives an alert with the bullet Kiwi and one with seed [apple] none.
C9_AlertNamesOnlyWatchedItemsInStock ==
    \A u \in Subscribers :
        evals[u].evaluated =>
            LET found == evals[u].foundItems
                text == AlertText(found, TRUE)
            IN /\ \A i \in DOMAIN found : \A j \in DOMAIN found[i].items :
                      /\ found[i].items[j] \in
                             Watched(data, evals[u].alertsToCheck, found[i].category)
                      /\ text.blocks[i].bullets[j] = formatItemName(found[i].items[j])
               /\ (/\ evals[u].alertsToCheck = KiwiOnly
                   /\ ItemSet(data, "seed_stock") = {"kiwi"})
                  => (evals[u].sent /\ HasBullet(text, Kiwi))
               /\ (/\ evals[u].alertsToCheck = KiwiOnly
                   /\ ItemSet(data, "seed_stock") = {"apple"})
                  => (found = <<>> /\ ~evals[u].sent)

\* The watch list seed [kiwi] meets a snapshot with seed [kiwi].
C9_Witness ==
    \E u \in Subscribers :
        /\ evals[u].evaluated
        /\ evals[u].alertsToCheck = KiwiOnly
        /\ ItemSet(data, "seed_stock") = {"kiwi"}
        /\ HasBullet(AlertText(evals[u].foundItems, TRUE), Kiwi)

\* No category contributes to the alert of u: no immediate category holds a
\* watched item and no slow category is in foundItems.
NothingContributes(u) ==
    /\ \A c \in ImmCats : Watched(data, evals[u].alertsToCheck, c) = {}
    /\ \A c \in SlowCats : ~InFound(evals[u].foundItems, c)

\* C10: when no category contributes, sendMessage is not called for the
\* subscriber; every message sent has at least one block.
C10_NoAlertNoSend ==
    \A u \in Subscribers :
        /\ (evals[u].evaluated /\ NothingContributes(u))
           => (~evals[u].sent /\ pc[u] \notin {"sendMessage", "failed"})
        /\ pc[u] \in {"sendMessage", "failed"}
           => AlertText(evals[u].foundItems, TRUE).blocks # <<>>

\* A subscriber is evaluated against a snapshot with seeds and eggs in
\* stock, none of them watched, and is done without a message.
C10_Witness ==
    \E u \in Subscribers :
        /\ evals[u].evaluated
        /\ NothingContributes(u)
        /\ ItemSet(data, "seed_stock") # {}
        /\ ItemSet(data, "egg_stock") # {}
        /\ pc[u] = "done"

\* C8: once the fan-out of a snapshot is over, the last seen set of each slow
\* category is the item set the snapshot holds for it, empty when the
\* category is empty or absent.
C8_LastSeenEqualsSnapshot ==
    (wave = 0 /\ received)
    => \A c \in SlowCats : lastSeenStock[c] = ItemSet(data, c)

\* ------------------------------------------- watch list selection, fan-out

C12_EveryRecipientAttemptedInFirstWave ==
    /\ wave = 1 => \A u \in Subscribers :
                       attempts[u].calls = 1 /\ pc[u] # "idle"
    /\ wave = 2 => \A u \in Subscribers : attempts[u].calls >= 1

\* The delivery to one subscriber has failed and the other's is under way.
C12_Witness ==
    /\ wave = 1
    /\ pc["u1"] = "failed"
    /\ pc["u2"] = "sendMessage"
    /\ attempts["u2"].calls = 1

\* C13: the retry wave starts when every call of the first wave has settled,
\* it calls checkStockForUser once more for exactly the subscribers whose
\* first call failed, and no subscriber is called a third time.
C13_OneRetryAfterFirstWaveSettled ==
    [][/\ \A u \in Subscribers : attempts'[u].calls <= 2
       /\ (wave = 1 /\ wave' = 2) =>
              \A u \in Subscribers :
                  /\ pc[u] \in {"done", "failed"}
                  /\ pc[u] = "failed" => attempts'[u].calls = 2
                  /\ pc[u] = "done" => attempts'[u].calls = 1
       /\ wave = 2 => /\ wave' \in {0, 2}
                      /\ wave' = 2 => \A u \in Subscribers :
                                         attempts'[u].calls = attempts[u].calls]_vars

\* A subscriber's second call has failed as well, and nothing else follows
\* but the end of the handler.
C13_Witness ==
    \E u \in Subscribers :
        /\ wave = 2
        /\ attempts[u].calls = 2
        /\ pc[u] = "failed"

\* C14: a subscriber whose first call did not fail is not called in the
\* retry wave, and no subscriber is delivered more than one message in one
\* fan-out.
C14_NoResendAfterSuccess ==
    \A u \in Subscribers :
        /\ attempts[u].delivered <= 1
        /\ (wave = 2 /\ u \notin failedSubscribers) =>
               /\ pc[u] = "idle"
               /\ attempts[u].calls = 1
               /\ evals[u].sent => attempts[u].delivered = 1

\* In the retry wave: u1 was delivered its alert in the first wave, u2 is
\* being retried.
C14_Witness ==
    /\ wave = 2
    /\ attempts["u1"].delivered = 1
    /\ attempts["u1"].calls = 1
    /\ attempts["u2"].calls = 2

\* C16: the promise of no call of checkStockForUser in a wave is rejected,
\* and the handler's promise is fulfilled once the fan-out is over.
C16_FailuresStayInsideFanOut ==
    /\ \A u \in Subscribers : pc[u] # "rejected"
    /\ handler \in {"idle", "running", "returned", "returned after a failure"}
    /\ wave = 0 <=> handler # "running"

\* The handler has returned from a fan-out in which a delivery failed.
C16_Witness == wave = 0 /\ handler = "returned after a failure"

\* C15: when a broadcast is reported, successCount is the number of
\* subscribers the message was delivered to and failCount the number of those
\* whose two sends failed; the two add up to the number of subscribers. If
\* every subscriber that failed in the first wave is delivered on retry the
\* counts are N and 0; if none is, failCount is their number K.
C15_CountsAddUpToRecipients ==
    broadcastWave = 3 =>
        LET N == Cardinality(BroadcastRecipients)
            K == Cardinality(failedBroadcasts)
            delivered == {u \in BroadcastRecipients : sends[u].delivered = 1}
            undelivered == {u \in BroadcastRecipients : broadcastPc[u] = "failed"}
        IN /\ successCount + failCount = N
           /\ successCount = Cardinality(delivered)
           /\ failCount = Cardinality(undelivered)
           /\ \A u \in BroadcastRecipients : sends[u].delivered <= 1
           /\ (\A u \in failedBroadcasts : broadcastPc[u] = "sent")
              => (successCount = N /\ failCount = 0)
           /\ (\A u \in failedBroadcasts : broadcastPc[u] = "failed")
              => failCount = K

\* Two of four subscribers failed in the first wave and were delivered the
\* message on retry.
C15_Witness ==
    /\ broadcastWave = 3
    /\ Cardinality(failedBroadcasts) = 2
    /\ \A u \in failedBroadcasts : sends[u].calls = 2 /\ broadcastPc[u] = "sent"
    /\ successCount = 4
    /\ failCount = 0

\* -------------------------------------------------------------- the link

OpenStep == ws = "CONNECTING" /\ ws' = "OPEN"

CloseStep == ws \in {"OPEN", "CLOSING"} /\ ws' = "CLOSED"

ErrorStep == ws \in {"CONNECTING", "OPEN", "ABORTING"} /\ ws' = "CLOSING"
             /\ last'.event = "error"

\* Reconnection is given up: five attempts made, the last link closed and
\* no timer pending.
Abandoned ==
    /\ reconnectAttempts = 5
    /\ ws \in {"null", "CLOSED"}
    /\ timers = <<>>

\* C17: the open handler leaves reconnectAttempts at 0 and isConnected true,
\* whatever the counter was.
C17_OpenResetsAttempts ==
    [][OpenStep => /\ reconnectAttempts \in 0..5
                   /\ reconnectAttempts' = 0
                   /\ isConnected' = TRUE
                   /\ last'.onConnect = 1]_vars

\* The link opened on the fifth reconnect attempt.
C17_Witness ==
    /\ last.event = "open"
    /\ last.attemptsBefore = 5
    /\ reconnectAttempts = 0
    /\ isConnected

\* C18: reconnectAttempts is between 0 and 5; a close that finds it at 5
\* schedules nothing and leaves it at 5; and once reconnection is given up
\* the manager stays as it is, disconnected.
C18_ReconnectAbandonedAfterFive ==
    [][/\ reconnectAttempts \in 0..5
       /\ reconnectAttempts' \in 0..5
       /\ (CloseStep /\ reconnectAttempts = 5) =>
              /\ timers' = timers
              /\ last'.scheduled = <<>>
              /\ reconnectAttempts' = 5
       /\ Abandoned => (~isConnected /\ ~isConnected' /\ Abandoned')]_vars

\* The link of the fifth attempt has closed and nothing was scheduled.
C18_Witness ==
    /\ Abandoned
    /\ last.event = "close"
    /\ last.attemptsBefore = 5
    /\ last.scheduled = <<>>
    /\ ~isConnected

\* C19: the close handler leaves isConnected false and calls onDisconnect
\* once; with fewer than 5 attempts made it increments the counter to k and
\* sets one timer of 5000 * k ms, and otherwise none.
C19_CloseSchedulesLinearBackoff ==
    [][CloseStep =>
          /\ isConnected' = FALSE
          /\ last'.onDisconnect = 1
          /\ IF reconnectAttempts < 5
             THEN /\ reconnectAttempts' = reconnectAttempts + 1
                  /\ reconnectAttempts' \in 1..5
                  /\ last'.scheduled = <<5000 * reconnectAttempts'>>
                  /\ timers' = Append(timers, 5000 * reconnectAttempts')
             ELSE /\ last'.scheduled = <<>>
                  /\ timers' = timers]_vars

\* The third close in a row has set a timer of 15 seconds.
C19_Witness ==
    /\ last.event = "close"
    /\ reconnectAttempts = 3
    /\ last.scheduled = <<15000>>
    /\ timers = <<15000>>
    /\ last.onDisconnect = 1

\* C20: the error handler leaves isConnected false, calls onError once and
\* schedules nothing itself; no handler and no call of connect() throws; and
\* the close handler, which schedules the reconnect, runs after every error.
C20_ErrorLeadsToClosePath ==
    /\ [][/\ last'.threw = FALSE
          /\ ErrorStep => /\ isConnected' = FALSE
                          /\ last'.onError = 1
                          /\ last'.scheduled = <<>>
                          /\ timers' = timers
                          /\ reconnectAttempts' = reconnectAttempts]_vars
    /\ (last.event = "error") ~> (last.event = "close" /\ ws = "CLOSED")

\* The open link has failed: the manager is disconnected and the link's
\* close event is to come.
C20_Witness ==
    /\ last.event = "error"
    /\ last.wsBefore = "OPEN"
    /\ last.onError = 1
    /\ ~isConnected
    /\ ws = "CLOSING"

\* C21: isConnectionActive() is true exactly when isConnected is true and
\* this.ws is a link whose readyState is OPEN, whatever reconnectAttempts is.
C21_ActiveOnlyWhenConnectedAndOpen ==
    /\ isConnectionActive => (isConnected /\ ws # "null" /\ ws = "OPEN")
    /\ (isConnected /\ ws = "OPEN") => isConnectionActive
    /\ (isConnected /\ ws # "OPEN") => ~isConnectionActive

\* isConnected is still true of a link that disconnect() is closing, and
\* isConnectionActive() is false.
C21_Witness ==
    /\ isConnected
    /\ ws = "CLOSING"
    /\ reconnectAttempts = 0
    /\ ~isConnectionActive

\* The id:quantity pairs of a category as a multiset: how often each occurs.
Count(list, pair) ==
    Cardinality({i \in DOMAIN list.items : IdQuantity(list.items[i]) = pair})

\* Two values of a category differ: one is a list and the other is not
\* there, or both are lists and some id:quantity pair occurs in them a
\* different number of times.
Differs(a, b) ==
    \/ a.present # b.present
    \/ /\ a.present
       /\ b.present
       /\ \E i \in DOMAIN Collation : Count(a, Collation[i]) # Count(b, Collation[i])

SomeTrackedDiffers(new, old) ==
    \E c \in Range(TrackedCategories) : Differs(new.stock[c], old.stock[c])

MessageStep == ws = "OPEN" /\ last'.event = "message" /\ last' # last

C23_MalformedPayloadDropped ==
    [][(MessageStep /\ (~last'.payload.parsed \/ last'.payload.stock = NoStock))
       => /\ last'.onStockUpdate = 0
          /\ UNCHANGED <<ws, isConnected, reconnectAttempts, timers, lastStockData>>
          /\ last'.threw = FALSE]_vars

\* The first payload of the link has no stock key: nothing is stored.
C23_Witness ==
    /\ last.event = "message"
    /\ last.payload = Parsed(NoStock)
    /\ ~lastStockData.parsed
    /\ last.onStockUpdate = 0
    /\ isConnected

\* C24: disconnect() leaves isConnected, reconnectAttempts, the timers and
\* lastStockData as they are; without a link it changes nothing, an open
\* link is closing after it, and a second call right after the first
\* changes nothing.
C24_DisconnectIdempotent ==
    [][(last'.event = "disconnect" /\ last' # last) =>
          /\ UNCHANGED <<isConnected, reconnectAttempts, timers, lastStockData>>
          /\ ws = "null" => ws' = "null"
          /\ ws = "OPEN" => ws' = "CLOSING"
          /\ last.event = "disconnect" => ws' = ws]_vars

\* disconnect() was called on the open link and once more.
C24_Witness ==
    /\ last.event = "disconnect"
    /\ last.wsBefore = "CLOSING"
    /\ ws = "CLOSING"
    /\ isConnected

\* The deadline of the pending timer.
Deadline == checkTimers[1]

\* scheduleNextCheck was called at the time of `clock`.
Scheduled == schedPc = "waiting" /\ Len(checkTimers) = 1

\* The time is within the second that starts at time t.
WithinSecond(t) == clock \div Second = t \div Second

\* A time of the 5-minute grid of the UTC+8 clock.
OnGrid(d) == (d + Offset) % (CheckIntervalMinutes * Minute) = 0

\* C25 (as the code has it): called at 14:29:17 of the UTC+8 clock, whenever
\* the process started, getNextCheckTime returns 14:30:00, the next time of
\* the 5-minute grid.
C25_DeadlineAfter142917Is143000 ==
    (Scheduled /\ WithinSecond(At(14, 29, 17, 0)))
        => Deadline = At(14, 30, 0, 0)

\* C25: called at 14:29:17 of the UTC+8 clock, whenever the process started,
\* getNextCheckTime returns 14:32:00.
C25_DeadlineAfter142917Is143200 ==
    (Scheduled /\ WithinSecond(At(14, 29, 17, 0)))
        => Deadline = At(14, 32, 0, 0)

C25_Witness ==
    /\ Scheduled
    /\ clock = At(14, 29, 17, 1)
    /\ processStart = At(9, 0, 0, 0)
    /\ Deadline = At(14, 30, 0, 0)

\* C26: the deadline getNextCheckTime returns at time t is on the 5-minute
\* grid of the UTC+8 clock, is not earlier than t, and is less than 5 minutes
\* after t.
C26_DeadlineOnGridNotEarlierWithinFiveMinutes ==
    Scheduled
        => /\ OnGrid(Deadline)
           /\ Deadline >= clock
           /\ Deadline - clock < CheckIntervalMinutes * Minute

\* A firing of the timer has set lastScheduledCheck.
RunStarts == lastScheduledCheck' # lastScheduledCheck

\* C27: a scheduled run starts at least 4 minutes after the start of the
\* scheduled run before it.
C27_RunsFourMinutesApart ==
    [][RunStarts => lastScheduledCheck' - lastScheduledCheck >= FourMinutes]_vars

\* A firing less than 4 minutes after a run was skipped, and the run's start
\* time kept.
C27_Witness ==
    /\ firing.kind = "duplicate"
    /\ lastScheduledCheck > 0
    /\ firing.at - lastScheduledCheck < FourMinutes
    /\ firings >= 2

\* C28: a firing of the timer with no subscriber, or with a link that
\* isConnectionActive() reports active, does not call checkStock, the one
\* place that fetches the snapshot and sends the alerts of a scheduled run.
C28_NoPollWithoutSubscribersOrWithActiveLink ==
    (firing.kind # "none" /\ (firing.subscribers = {} \/ firing.active))
        => /\ ~firing.calledCheckStock
           /\ ~firing.fetched
           /\ firing.evaluated = {}
           /\ schedPc = "waiting"

\* The timer fired with subscribers, 4 minutes or more after the last run,
\* while the link was active.
C28_Witness ==
    /\ firing.kind = "active"
    /\ firing.subscribers # {}
    /\ firing.active
    /\ firing.sinceLast >= FourMinutes
    /\ ~firing.calledCheckStock

\* C29: once scheduleNextCheck has been called, at most one timer is pending;
\* when the callback is not running, exactly one is, armed at the end of the
\* firing before; and the callback that awaits checkStock comes to arm it.
C29_OneTimerAlwaysRearmed ==
    /\ [](schedPc # "init" => Len(checkTimers) <= 1)
    /\ [](schedPc = "waiting"
              => /\ Len(checkTimers) = 1
                 /\ firing.kind # "none" => firing.armed = 1)
    /\ (schedPc = "checkStock" ~> (schedPc = "waiting" /\ Len(checkTimers) = 1))

\* A poll that failed has armed the next timer.
C29_Witness ==
    /\ firing.kind = "run"
    /\ firing.threw
    /\ firing.armed = 1
    /\ schedPc = "waiting"
    /\ Len(checkTimers) = 1

\* C30: a firing of the timer with a subscriber, no run in the 4 minutes
\* before and no active link fetches the snapshot and evaluates every
\* subscriber against it.
C30_ScheduledRunFetchesAndEvaluatesAll ==
    (/\ firing.kind # "none"
     /\ firing.subscribers # {}
     /\ firing.sinceLast >= FourMinutes
     /\ ~firing.active
     /\ schedPc = "waiting")
        => /\ firing.fetched
           /\ firing.evaluated = firing.subscribers

\* The requests before the n-th one all failed.
AllFailedBefore(n) == \A k \in 1..(n - 1) : requests[k] # "200"

\* The delay after the k-th failed request: 1000, 2000, 4000, then 5000 ms.
DelayAfterFailure(k) ==
    IF k = 1 THEN 1000 ELSE IF k = 2 THEN 2000 ELSE IF k = 3 THEN 4000 ELSE 5000

\* C31: getStock(retries) makes at most `retries` requests; it returns the
\* data of the first request answered with status 200; after the k-th failed
\* request it waits min(1000 * 2^(k-1), 5000) ms before the next one; and
\* once the last request has failed it rethrows that request's error.
C31_GetStockRetriesWithCappedBackoff ==
    /\ Len(requests) <= retries
    /\ getStockPc = "returned" /\ retries >= 1
           => /\ result = [kind |-> "data", of |-> Len(requests)]
              /\ requests[Len(requests)] = "200"
              /\ AllFailedBefore(Len(requests))
    /\ getStockPc = "thrown"
           => /\ Len(requests) = retries
              /\ AllFailedBefore(retries + 1)
              /\ result = [kind |-> "error", of |-> retries]
              /\ Len(waits) = retries - 1
    /\ getStockPc \in {"request", "waiting"}
           => /\ AllFailedBefore(Len(requests) + 1)
              /\ Len(requests) < retries
              /\ getStockPc = "waiting" => Len(waits) = Len(requests)
    /\ \A k \in DOMAIN waits : waits[k] = DelayAfterFailure(k)

\* Five requests failed, with waits of 1, 2, 4 and 5 seconds between them.
C31_Witness ==
    /\ getStockPc = "thrown"
    /\ retries = 5
    /\ waits = <<1000, 2000, 4000, 5000>>
    /\ result.of = 5

\* The capital of a lowercase letter.
Capital(ch) ==
    CASE ch = "a" -> "A" [] ch = "z" -> "Z" [] ch = "k" -> "K" [] ch = "b" -> "B"
      [] ch = "p" -> "P" [] OTHER -> ch

\* The character at place i of the display form of chars: a space for an
\* underscore, a capital at the start of a word, the letter itself elsewhere.
DisplayChar(chars, i) ==
    IF chars[i] = "_" THEN " "
    ELSE IF i = 1 \/ chars[i - 1] = "_" THEN Capital(chars[i])
    ELSE chars[i]

\* C32: formatItemName maps an id of lowercase words joined by underscores
\* to the same words in the same order, each with its first letter as a
\* capital, joined by single spaces.
C32_FormatItemNameTitleCase ==
    displayName # <<>>
        => displayName = [i \in DOMAIN itemChars |-> DisplayChar(itemChars, i)]

\* bell_pepper gives Bell Pepper.
C32_Witness ==
    /\ itemChars = <<"b", "e", "l", "l", "_", "p", "e", "p", "p", "e", "r">>
    /\ displayName = <<"B", "e", "l", "l", " ", "P", "e", "p", "p", "e", "r">>

\* C33: a stock command of a user who is not rate-limited, and who never
\* checked or checked 5 minutes ago or earlier, fetches the stock and
\* evaluates the user's watch list, and is not answered with the cooldown
\* message.
C33_StockCommandAfterCooldownRunsCheck ==
    (/\ command.kind = "stock"
     /\ command.limited = "no"
     /\ command.sinceCheck = 0 \/ command.sinceCheck >= COOLDOWN_TIME)
        => /\ command.fetched
           /\ command.evaluated
           /\ ~command.cooldownMessage

\* "2 seconds between commands"
TwoSeconds == 2 * Second

\* C34: a command that arrives less than 2 seconds after the user's last
\* accepted command is refused as rate-limited.
C34_CommandWithinTwoSecondsRefused ==
    (/\ command.kind # "none"
     /\ command.sinceAccepted > 0
     /\ command.sinceAccepted < TwoSeconds)
        => command.limited # "no"

\* C35: the retry wave attempts to deliver, to a subscriber whose first-wave
\* delivery failed, an alert with the categories and items of the first
\* attempt.
C35_RetryDeliversSameContent ==
    [][\A u \in Subscribers :
           (wave = 2 /\ EvalStep(u))
               => /\ evals'[u].sent
                  /\ evals'[u].foundItems = evals[u].foundItems]_vars

\* C36: of two snapshots handled one after the other, no evaluation of the
\* earlier one reads or writes the category memory after an evaluation of
\* the later one has written it.
C36_FanOutsDoNotInterleaveOnMemory ==
    \A i \in DOMAIN memAccess : \A j \in DOMAIN memAccess :
        (i < j /\ memAccess[i].snapshot = 2 /\ memAccess[i].wrote)
            => memAccess[j].snapshot # 1

\* C37: for one message sendMessage makes at most two requests, and when it
\* has made two it has returned true or false.
C37_SendMessageAtMostTwoRequests ==
    /\ Len(sendRequests) <= 2
    /\ Len(sendRequests) = 2
           => sendPc = "returned" /\ sendResult \in {"true", "false"}

\* C38: a check that sends to no subscriber, the one of the process start
\* or the manual one of a user, leaves lastSeenStock and lastCheckTime30Min
\* as they were.
C38_CheckWithoutFanOutLeavesMemory ==
    [][(checks' # checks /\ check'.kind \in {"start", "manual"})
           => /\ lastSeenStock' = lastSeenStock
              /\ lastCheckTime30Min' = lastCheckTime30Min]_vars

\* C39: once disconnect() was called on an open link, and until connect()
\* is called again, no reconnect is scheduled, the attempt counter is not
\* incremented and no new link is opened.
C39_StaysDisconnectedAfterDisconnect ==
    [][stopped => /\ timers' = timers
                  /\ reconnectAttempts' <= reconnectAttempts
                  /\ ~Live(ws')]_vars

\* C40: after the one connect() of the start, whatever the order of the
\* open, error, close and timer events and of the calls of disconnect(), at
\* most one link of the manager is connecting or open and at most one
\* reconnect timer is pending.
C40_OneLinkOneTimer ==
    /\ links <= 1
    /\ Len(timers) <= 1

\* A link is connecting for the third time, after a call of disconnect().
C40_Witness ==
    /\ links = 1
    /\ ws = "CONNECTING"
    /\ reconnectAttempts >= 2
    /\ stopped
    /\ timers = <<>>

====
